---- MODULE Spec2Model ----
(***************************************************************************)
(* Verification model of the streaming filter/export engine of             *)
(* backend/filterscripts/combinator.py, of the filter modules it chains,   *)
(* and of the streaming analyzer of backend/analysis.py.                   *)
(*                                                                         *)
(* The state machines share the module, each with its own specification:   *)
(*   SaveSpec   save_filtered_csv_multi: validation of the destination     *)
(*              list, routing of the filtered stream, chunked writing,     *)
(*              the finally block that closes the chunk handles;           *)
(*   DupSpec    _apply_duplicate_filter: the generator that drops external *)
(*              and repeated identifiers;                                  *)
(*   CacheSpec  _load_existing_kvk_numbers and its signature-keyed cache.  *)
(*   PipeSpec   _apply_filters: the lazy chain of the selected filters in  *)
(*              selection order, then the duplicate filter;                *)
(*   SingleSpec _apply_filters with one filter selected, over the inputs   *)
(*              each filter module distinguishes;                          *)
(*   PolySpec   location_filter._load_all and invalidate_cache run by two  *)
(*              threads on the module's globals;                           *)
(*   RequestSpec two requests pulling their own duplicate-filter           *)
(*              generators over one source and one duplicates folder;      *)
(*   AnalyzerSpec StreamingAnalyzer.consume over a row stream, then        *)
(*              finalize;                                                  *)
(*   SbiSpec    _apply_filters with the sbi filter selected;               *)
(*   CompareSpec _compare_distribution on a breakdown and a baseline;      *)
(*   BaselineSpec _load_baseline called by two threads, the reference      *)
(*              files coming and going;                                    *)
(*   ConsumerSpec preview_count, stream_filtered_csv behind api_download,  *)
(*              save_filtered_csv_multi with one REST destination and      *)
(*              statistical_analysis on the same inputs.                   *)
(* The variables of the machines that a specification does not run keep    *)
(* their initial values.                                                   *)
(*                                                                         *)
(* Encoding of Python values.  None, "R", a non-numeric string and an      *)
(* integer n are the records NoneVal, RVal, BadVal and IntVal(n).  A       *)
(* prepared entry's requested/remaining = None is rest = TRUE.  A handle   *)
(* is the index of its record in fh (0 is None); entry["writer"] is set    *)
(* and cleared together with entry["handle"] and is not kept separately.   *)
(* A file's content is the sequence of data rows it holds (the byte-order  *)
(* mark and the header row are implied by the file's existence).  A path   *)
(* is <<directory, file index>>: every destination uses the same base      *)
(* name, so two destinations with the same directory share their paths.    *)
(***************************************************************************)
EXTENDS Integers, Sequences, FiniteSets, TLC, Bags

\* ------------------------------------------------------------------ bounds
MaxDests == 2
MaxQuota == 2
MaxChunk == 2
MaxSrc == 4

\* ------------------------------------------------------------ Python values
NoneVal == [k |-> "none", v |-> 0]
RVal == [k |-> "R", v |-> 0]
BadVal == [k |-> "bad", v |-> 0]
IntVal(n) == [k |-> "int", v |-> n]

\* Python truthiness of a raw value: None and 0 are falsy.
PyTruthy(x) == x.k \in {"R", "bad"} \/ (x.k = "int" /\ x.v # 0)

\* a or b
PyOr(a, b) == IF PyTruthy(a) THEN a ELSE b

Dirs == {"out1", "out2"}

\* A destination dict as api_save builds it: the snake_case keys only.
\* directory "" stands for a missing or blank directory.
RawDest ==
  [directory : Dirs \cup {""},
   max_rows_per_file : {NoneVal, BadVal} \cup {IntVal(n) : n \in -1..MaxChunk},
   rows_requested : {NoneVal, RVal, BadVal} \cup {IntVal(n) : n \in -1..MaxQuota}]

VARIABLES
  svPc,               \* position in save_filtered_csv_multi
  svExc,              \* the exception pending or raised: "none", "validation", "capacity", "io"
  svErr,              \* the message of the validation error
  nDests,             \* len(destinations)
  destinations,       \* the raw destinations examined so far
  prepared,           \* the prepared entries
  rest_index,         \* 1-based index of the REST entry, 0 for None
  srcOpen,            \* the read handle of _stream_rows is open
  srcRead,            \* data rows read from the source
  srcYielded,         \* rows the filter pipeline has yielded
  dirsMade,           \* directories created by mkdir
  disk,               \* path -> data rows of the chunk file
  fh,                 \* write handles opened so far: [path, open]
  written,            \* every writer.writerow(row): <<row, destination, file index>>
  total_rows_written

saveVars ==
  <<svPc, svExc, svErr, nDests, destinations, prepared, rest_index, srcOpen, srcRead,
    srcYielded, dirsMade, disk, fh, written, total_rows_written>>

VARIABLES
  dpPc,               \* position in _apply_duplicate_filter and its generator
  dpFolder,           \* the folder argument
  dpHeader,           \* the source header
  dpRows,             \* the upstream row stream
  dpExisting,         \* the identifier set loaded from the duplicates folder
  dpPos,              \* rows of the stream consumed so far
  dpSeen,             \* the generator's seen set
  dpOut               \* indexes of the rows yielded, in order

dupVars == <<dpPc, dpFolder, dpHeader, dpRows, dpExisting, dpPos, dpSeen, dpOut>>

VARIABLES
  folder,             \* the csv files of the duplicates folder: name -> file
  cache,              \* the folder's entry of _DUPLICATE_CACHE
  ldPc,               \* "idle", or how the call just made ended: "returned", "raised"
  ldResult,           \* what the last call of _load_existing_kvk_numbers returned
  ldReread,           \* the last call opened the folder's files
  ldCalls,            \* calls made so far
  chgCount,           \* folder changes made so far
  allAltered,         \* every folder change so far altered the folder's signature
  builtAt,            \* chgCount when the cache entry was built
  sigReused           \* the last call met the cached signature on a folder changed
                      \* since the cache entry was built

cacheVars ==
  <<folder, cache, ldPc, ldResult, ldReread, ldCalls, chgCount, allAltered, builtAt,
    sigReused>>

VARIABLES
  flHeader,           \* the source header
  flRows,             \* the source rows
  flSelected,         \* selected_filters: the (key, selected) items in dict order
  flDup,              \* advanced: filterDuplicates is on
  flExisting,         \* the identifier set of the duplicates folder
  flPos,              \* source rows the chain of generators has read
  flSeen,             \* the duplicate generator's seen set
  flOut,              \* indexes of the rows _apply_filters has yielded, in order
  flPc                \* "idle", "call", "run", "done", "raised"

filterVars == <<flHeader, flRows, flSelected, flDup, flExisting, flPos, flSeen, flOut, flPc>>

\* location_filter's polygon cache and the threads that touch it
VARIABLES
  plReady,            \* _CACHE_READY
  plProvGeoms,        \* _PROV_GEOMS
  plProvNames,        \* _PROV_NAMES
  plCustGeoms,        \* _CUST_GEOMS
  plCustNames,        \* _CUST_NAMES
  plThread            \* per thread: where it is in its call

polyVars == <<plReady, plProvGeoms, plProvNames, plCustGeoms, plCustNames, plThread>>

\* two requests with duplicate filtering over one source and one folder
VARIABLES
  rqFolder,           \* the duplicates folder
  rqCache,            \* _DUPLICATE_CACHE[str(resolved)]
  rqHeader,           \* the header of the source
  rqRows,             \* the rows of the source
  rqReq               \* per request: pc, existing, read position, seen, emitted rows

requestVars == <<rqFolder, rqCache, rqHeader, rqRows, rqReq>>

\* StreamingAnalyzer
VARIABLES
  anHeader,           \* self.header
  anRows,             \* the rows still to come, then consumed
  anPos,              \* rows consumed
  anStats,            \* the counters of the analyzer
  anResult,           \* what finalize returned
  anPc

analyzerVars == <<anHeader, anRows, anPos, anStats, anResult, anPc>>

VARIABLES
  cmFiltered,         \* filtered_map: the live breakdown, its items in dict order
  cmBaseline,         \* baseline_map: the baseline shares, its items in dict order
  cmTotal,            \* total_filtered
  cmCap,              \* max_rows
  cmResult,           \* what _compare_distribution returned
  cmPc                \* "idle", "call", "done"

compareVars == <<cmFiltered, cmBaseline, cmTotal, cmCap, cmResult, cmPc>>

VARIABLES
  blFiles,            \* which of the three reference files exist
  blCache,            \* _BASELINE_CACHE
  blReads,            \* how many times SUMMARY_FILE was opened
  blObjects,          \* how many BaselineData objects were built
  blChanges,          \* changes made to the reference files
  blCalls,            \* calls of _load_baseline made after the first of each thread
  blThread            \* per thread: position in _load_baseline and what it returned

baselineVars == <<blFiles, blCache, blReads, blObjects, blChanges, blCalls, blThread>>

VARIABLES
  cnHeader,           \* the source header
  cnRows,             \* the source rows
  cnSelected,         \* selected_filters: the (key, selected) items in dict order
  cnAdv,              \* the advanced options and what the duplicates folder holds
  cnChunk,            \* max_rows_per_file of the destination of the save
  cnState             \* per consumer: its position, its pipeline and what it produced

consumerVars == <<cnHeader, cnRows, cnSelected, cnAdv, cnChunk, cnState>>

\* The variables of the comparison, baseline and consumer machines.
moreVars == <<compareVars, baselineVars, consumerVars>>

\* The variables of the machines declared before these.
oldVars == <<saveVars, dupVars, cacheVars, filterVars, polyVars, requestVars, analyzerVars>>

\* The variables of the machines other than the three above.
restVars == <<filterVars, polyVars, requestVars, analyzerVars, moreVars>>

vars == <<saveVars, dupVars, cacheVars, restVars>>

\* ---------------------------------------------------------------- helpers
Min(S) == CHOOSE x \in S : \A y \in S : x <= y

Max(S) == CHOOSE x \in S : \A y \in S : y <= x

Put(d, p, val) == [q \in DOMAIN d \cup {p} |-> IF q = p THEN val ELSE d[q]]

EmptyDisk == [p \in {} |-> <<>>]

\* --------------------------------------------------------------- validation
MaxRowsRaw(raw) == PyOr(raw.max_rows_per_file, NoneVal)

RowsRaw(raw) ==
  LET r == PyOr(raw.rows_requested, NoneVal)
  IN IF r.k = "R" THEN NoneVal ELSE r

\* EarlyError without the test max_rows <= 0.
EarlyErrorNoPositiveCheck(raw) ==
  LET m == MaxRowsRaw(raw)
  IN IF raw.directory = "" THEN "directory is required"
     ELSE IF m.k = "none" THEN "max_rows_per_file is required"
     ELSE IF m.k # "int" THEN "max_rows_per_file must be an integer"
     ELSE "ok"

\* The checks made on a destination before its directory is created.
EarlyError(raw) ==
  LET m == MaxRowsRaw(raw)
  IN IF raw.directory = "" THEN "directory is required"
     ELSE IF m.k = "none" THEN "max_rows_per_file is required"
     ELSE IF m.k # "int" THEN "max_rows_per_file must be an integer"
     ELSE IF m.v <= 0 THEN "max_rows_per_file must be greater than zero"
     ELSE "ok"

\* The checks made after mkdir.
LateError(raw, rest_idx) ==
  LET r == RowsRaw(raw)
  IN IF r.k = "none"
       THEN (IF rest_idx # 0 THEN "Only one destination can use R (rest)." ELSE "ok")
     ELSE IF r.k # "int" THEN "rows must be a positive integer or 'R'"
     ELSE IF r.v <= 0 THEN "rows must be greater than zero"
     ELSE "ok"

NewEntry(raw) ==
  LET r == RowsRaw(raw)
  IN [directory |-> raw.directory,
      max_rows |-> MaxRowsRaw(raw).v,
      rest |-> (r.k = "none"),
      requested |-> r.v,
      remaining |-> r.v,
      file_index |-> 0,
      handle |-> 0,
      current_count |-> 0,
      files |-> <<>>,
      total_rows |-> 0]

\* ------------------------------------------------------------- ensure_writer
\* NeedsNewChunk with > for >=.
NeedsNewChunkLate(e) == e.handle = 0 \/ e.current_count > e.max_rows

\* entry["writer"] is None or entry["current_count"] >= entry["max_rows"]
NeedsNewChunk(e) == e.handle = 0 \/ e.current_count >= e.max_rows

\* CloseHandle leaving the handle open.
CloseHandleSkipped(handles, h) == handles

\* entry["handle"].close() when the entry holds a handle.
CloseHandle(handles, h) ==
  IF h # 0 THEN [handles EXCEPT ![h].open = FALSE] ELSE handles

\* ensure_writer(entry) when nothing fails: the entry, the disk and the handles after it.
EnsureWriter(e, dsk, handles) ==
  IF NeedsNewChunk(e)
    THEN LET closed == CloseHandle(handles, e.handle)
             idx == e.file_index + 1
             path == <<e.directory, idx>>
         IN [entry |-> [e EXCEPT !.file_index = idx,
                                 !.files = Append(@, path),
                                 !.handle = Len(closed) + 1,
                                 !.current_count = 0],
             disk |-> Put(dsk, path, <<>>),
             fh |-> Append(closed, [path |-> path, open |-> TRUE])]
    ELSE [entry |-> e, disk |-> dsk, fh |-> handles]

\* The points of ensure_writer and of the row write at which an OSError can be raised.
FailPoints(e) ==
  (IF NeedsNewChunk(e) /\ e.handle # 0 THEN {"close"} ELSE {})
    \cup (IF NeedsNewChunk(e) THEN {"open", "header"} ELSE {})
    \cup {"row"}

\* ensure_writer(entry) followed by writer.writerow(row), raising at `point`.
\*   close:  entry["handle"].close() raises; the descriptor is released all the same
\*   open:   path.open raises after file_index was incremented
\*   header: the file is created and open, the write of the mark or of the header
\*           raises before the handle is stored in the entry
\*   row:    the chunk is ready, writer.writerow(row) raises before the counters move
EnsureWriterFail(e, dsk, handles, point) ==
  LET closed == CloseHandle(handles, e.handle)
      idx == e.file_index + 1
      path == <<e.directory, idx>>
  IN IF point = "close"
       THEN [entry |-> e, disk |-> dsk, fh |-> closed]
     ELSE IF point = "open"
       THEN [entry |-> [e EXCEPT !.file_index = idx], disk |-> dsk, fh |-> closed]
     ELSE IF point = "header"
       THEN [entry |-> [e EXCEPT !.file_index = idx],
             disk |-> Put(dsk, path, <<>>),
             fh |-> Append(closed, [path |-> path, open |-> TRUE])]
     ELSE EnsureWriter(e, dsk, handles)

\* ------------------------------------------------------------------ routing
\* DestinationIndex taking the last entry with remaining > 0 for the first.
DestinationIndexLast(prep, rest_idx) ==
  LET fixed == {i \in 1..Len(prep) : ~prep[i].rest /\ prep[i].remaining > 0}
  IN IF fixed # {} THEN CHOOSE x \in fixed : \A y \in fixed : x >= y ELSE rest_idx

\* DestinationIndex testing remaining > 1 for remaining > 0.
DestinationIndexEarlyStop(prep, rest_idx) ==
  LET fixed == {i \in 1..Len(prep) : ~prep[i].rest /\ prep[i].remaining > 1}
  IN IF fixed # {} THEN Min(fixed) ELSE rest_idx

\* The first entry with remaining > 0, else the REST entry, else 0 (None).
DestinationIndex(prep, rest_idx) ==
  LET fixed == {i \in 1..Len(prep) : ~prep[i].rest /\ prep[i].remaining > 0}
  IN IF fixed # {} THEN Min(fixed) ELSE rest_idx

\* CountRow counting total_rows only under the remaining-is-not-None test.
CountRowFixedOnly(e) ==
  [e EXCEPT !.current_count = @ + 1,
            !.total_rows = IF e.rest THEN @ ELSE @ + 1,
            !.remaining = IF e.rest THEN @ ELSE @ - 1]

\* CountRow leaving the remaining quota as it is.
CountRowKeepsRemaining(e) ==
  [e EXCEPT !.current_count = @ + 1,
            !.total_rows = @ + 1]

\* The counters of an entry after one row was written to it.
CountRow(e) ==
  [e EXCEPT !.current_count = @ + 1,
            !.total_rows = @ + 1,
            !.remaining = IF e.rest THEN @ ELSE @ - 1]

\* The finally block: the entries' handles are closed in list order.  k = 0: every
\* close succeeds.  k > 0: the close of entry k raises (its descriptor is released,
\* its fields are left as they are) and the entries after it are not reached.
FinallyClose(prep, handles, k) ==
  LET last == IF k = 0 THEN Len(prep) ELSE k - 1
      held == {prep[i].handle : i \in 1..(IF k = 0 THEN Len(prep) ELSE k)} \ {0}
  IN [prepared |-> [i \in 1..Len(prep) |->
                      IF i <= last /\ prep[i].handle # 0
                        THEN [prep[i] EXCEPT !.handle = 0, !.current_count = 0]
                        ELSE prep[i]],
      fh |-> [h \in 1..Len(handles) |->
                IF h \in held THEN [handles[h] EXCEPT !.open = FALSE] ELSE handles[h]]]

\* ------------------------------------------------- save_filtered_csv_multi
\* The empty-list check, then _stream_rows: the source is opened and its header read.
SaveBegin ==
  /\ svPc = "call"
  /\ IF nDests = 0
       THEN /\ svPc' = "raised"
            /\ svExc' = "validation"
            /\ svErr' = "At least one save destination is required"
            /\ UNCHANGED srcOpen
       ELSE /\ svPc' = "validate"
            /\ srcOpen' = TRUE
            /\ UNCHANGED <<svExc, svErr>>
  /\ UNCHANGED <<nDests, destinations, prepared, rest_index, srcRead, srcYielded,
                 dirsMade, disk, fh, written, total_rows_written>>
  /\ UNCHANGED <<dupVars, cacheVars, restVars>>

\* One iteration of the validation loop, on the next destination of the request.
SaveValidate ==
  /\ svPc = "validate"
  /\ Len(destinations) < nDests
  /\ \E raw \in RawDest :
       LET early == EarlyError(raw)
           late == LateError(raw, rest_index)
       IN /\ destinations' = Append(destinations, raw)
          /\ dirsMade' = IF early = "ok" THEN dirsMade \cup {raw.directory} ELSE dirsMade
          /\ IF early # "ok" \/ late # "ok"
               THEN /\ svPc' = "raised"
                    /\ svExc' = "validation"
                    /\ svErr' = IF early # "ok" THEN early ELSE late
                    /\ UNCHANGED <<prepared, rest_index>>
               ELSE /\ prepared' = Append(prepared, NewEntry(raw))
                    /\ rest_index' = IF RowsRaw(raw).k = "none"
                                       THEN Len(prepared) + 1 ELSE rest_index
                    /\ svPc' = IF Len(destinations) + 1 = nDests THEN "route" ELSE "validate"
                    /\ UNCHANGED <<svExc, svErr>>
  /\ UNCHANGED <<nDests, srcOpen, srcRead, srcYielded, disk, fh, written, total_rows_written>>
  /\ UNCHANGED <<dupVars, cacheVars, restVars>>

\* The pipeline reads a source row that a filter drops.
SaveFilterDrop ==
  /\ svPc = "route"
  /\ srcRead < MaxSrc
  /\ srcRead' = srcRead + 1
  /\ UNCHANGED <<svPc, svExc, svErr, nDests, destinations, prepared, rest_index, srcOpen,
                 srcYielded, dirsMade, disk, fh, written, total_rows_written>>
  /\ UNCHANGED <<dupVars, cacheVars, restVars>>

\* One iteration of the routing loop that writes its row.
SaveRoute ==
  /\ svPc = "route"
  /\ srcRead < MaxSrc
  /\ LET d == DestinationIndex(prepared, rest_index)
     IN /\ d # 0
        /\ LET r == EnsureWriter(prepared[d], disk, fh)
               row == srcYielded + 1
           IN /\ prepared' = [prepared EXCEPT ![d] = CountRow(r.entry)]
              /\ disk' = [r.disk EXCEPT ![r.fh[r.entry.handle].path] = Append(@, row)]
              /\ fh' = r.fh
              /\ written' = Append(written, <<row, d, r.entry.file_index>>)
  /\ srcRead' = srcRead + 1
  /\ srcYielded' = srcYielded + 1
  /\ total_rows_written' = total_rows_written + 1
  /\ UNCHANGED <<svPc, svExc, svErr, nDests, destinations, rest_index, srcOpen, dirsMade>>
  /\ UNCHANGED <<dupVars, cacheVars, restVars>>

\* One iteration of the routing loop that finds no destination for its row.
SaveCapacity ==
  /\ svPc = "route"
  /\ srcRead < MaxSrc
  /\ DestinationIndex(prepared, rest_index) = 0
  /\ srcRead' = srcRead + 1
  /\ srcYielded' = srcYielded + 1
  /\ svExc' = "capacity"
  /\ svErr' = "More rows produced than allocated"
  /\ svPc' = "finally"
  /\ UNCHANGED <<nDests, destinations, prepared, rest_index, srcOpen, dirsMade, disk, fh,
                 written, total_rows_written>>
  /\ UNCHANGED <<dupVars, cacheVars, restVars>>

\* One iteration of the routing loop in which the file system raises.
SaveIoFail ==
  /\ svPc = "route"
  /\ srcRead < MaxSrc
  /\ LET d == DestinationIndex(prepared, rest_index)
     IN /\ d # 0
        /\ \E point \in FailPoints(prepared[d]) :
             LET r == EnsureWriterFail(prepared[d], disk, fh, point)
             IN /\ prepared' = [prepared EXCEPT ![d] = r.entry]
                /\ disk' = r.disk
                /\ fh' = r.fh
  /\ srcRead' = srcRead + 1
  /\ srcYielded' = srcYielded + 1
  /\ svExc' = "io"
  /\ svPc' = "finally"
  /\ UNCHANGED <<svErr, nDests, destinations, rest_index, srcOpen, dirsMade, written,
                 total_rows_written>>
  /\ UNCHANGED <<dupVars, cacheVars, restVars>>

\* HeaderOnlyDue with the test on the first entry's files inverted.
HeaderOnlyInverted == total_rows_written = 0 /\ prepared # <<>> /\ prepared[1].files # <<>>

\* The zero-row case applies: no row was written and the first entry has no file.
HeaderOnlyDue == total_rows_written = 0 /\ prepared # <<>> /\ prepared[1].files = <<>>

\* The loop over the filtered stream ends, then the zero-row case.  When rows were
\* read the generator of _stream_rows is exhausted and its finally block closes
\* the source.  When none was read, either the source has no data row (the same),
\* or a filter returned without iterating its input: the generator of
\* _stream_rows was never started, its finally block is not reached and the
\* handle stays open.
SaveStreamEnd ==
  /\ svPc = "route"
  /\ srcOpen' \in (IF srcRead = 0 THEN {TRUE, FALSE} ELSE {FALSE})
  /\ IF HeaderOnlyDue
       THEN LET r == EnsureWriter(prepared[1], disk, fh)
            IN /\ prepared' = [prepared EXCEPT ![1] = r.entry]
               /\ disk' = r.disk
               /\ fh' = r.fh
       ELSE UNCHANGED <<prepared, disk, fh>>
  /\ svPc' = "finally"
  /\ UNCHANGED <<svExc, svErr, nDests, destinations, rest_index, srcRead, srcYielded,
                 dirsMade, written, total_rows_written>>
  /\ UNCHANGED <<dupVars, cacheVars, restVars>>

\* The loop over the filtered stream ends and the file system raises in the
\* zero-row case.
SaveEndFail ==
  /\ svPc = "route"
  /\ HeaderOnlyDue
  /\ srcOpen' \in (IF srcRead = 0 THEN {TRUE, FALSE} ELSE {FALSE})
  /\ \E point \in FailPoints(prepared[1]) \ {"row"} :
       LET r == EnsureWriterFail(prepared[1], disk, fh, point)
       IN /\ prepared' = [prepared EXCEPT ![1] = r.entry]
          /\ disk' = r.disk
          /\ fh' = r.fh
  /\ svExc' = "io"
  /\ svPc' = "finally"
  /\ UNCHANGED <<svErr, nDests, destinations, rest_index, srcRead, srcYielded, dirsMade,
                 written, total_rows_written>>
  /\ UNCHANGED <<dupVars, cacheVars, restVars>>

\* The finally block, then the return or the propagation of the exception.
SaveFinally ==
  /\ svPc = "finally"
  /\ \E k \in 0..Len(prepared) :
       /\ k # 0 => (prepared[k].handle # 0 /\ fh[prepared[k].handle].open)
       /\ LET r == FinallyClose(prepared, fh, k)
          IN /\ prepared' = r.prepared
             /\ fh' = r.fh
       /\ svExc' = IF k # 0 THEN "io" ELSE svExc
       /\ svPc' = IF k = 0 /\ svExc = "none" THEN "returned" ELSE "raised"
  /\ UNCHANGED <<svErr, nDests, destinations, rest_index, srcOpen, srcRead, srcYielded,
                 dirsMade, disk, written, total_rows_written>>
  /\ UNCHANGED <<dupVars, cacheVars, restVars>>

\* After the call has ended with the source still open, the interpreter may
\* finalize the abandoned generator or file object, which releases the handle;
\* nothing in the program does, and when is the interpreter's choice.
SaveCollect ==
  /\ svPc \in {"returned", "raised"}
  /\ srcOpen
  /\ srcOpen' = FALSE
  /\ UNCHANGED <<svPc, svExc, svErr, nDests, destinations, prepared, rest_index, srcRead,
                 srcYielded, dirsMade, disk, fh, written, total_rows_written>>
  /\ UNCHANGED <<dupVars, cacheVars, restVars>>

SaveNext ==
  \/ SaveCollect
  \/ SaveBegin
  \/ SaveValidate
  \/ SaveFilterDrop
  \/ SaveRoute
  \/ SaveCapacity
  \/ SaveIoFail
  \/ SaveStreamEnd
  \/ SaveEndFail
  \/ SaveFinally

\* ================================================== _apply_duplicate_filter
\* Text is a sequence of one-character strings.  "B" stands for the byte-order
\* mark U+FEFF.
MaxLen == 3

Lower(c) == IF c = "K" THEN "k" ELSE IF c = "V" THEN "v" ELSE c

AlNum ==
  {"a", "b", "c", "d", "e", "f", "g", "h", "i", "j", "k", "l", "m", "n", "o", "p", "q", "r",
   "s", "t", "u", "v", "w", "x", "y", "z", "0", "1", "2", "3", "4", "5", "6", "7", "8", "9"}

RECURSIVE LStripChar(_, _)
LStripChar(t, c) == IF t # <<>> /\ Head(t) = c THEN LStripChar(Tail(t), c) ELSE t

\* re.sub(r"[^a-z0-9]", "", str(name).lstrip("\ufeff").lower())
\* (a None name is the empty text)
_normalize_column_name(name) ==
  LET lowered == [i \in 1..Len(LStripChar(name, "B")) |-> Lower(LStripChar(name, "B")[i])]
  IN SelectSeq(lowered, LAMBDA c : c \in AlNum)

_KVK_CANDIDATES ==
  {<<"k", "v", "k">>,
   <<"k", "v", "k", "n", "u", "m", "m", "e", "r">>,
   <<"k", "v", "k", "n", "r">>,
   <<"k", "v", "k", "n", "u", "m", "b", "e", "r">>}

StartsWithKvk(t) == Len(t) >= 3 /\ SubSeq(t, 1, 3) = <<"k", "v", "k">>

IsKvkColumn(col) ==
  _normalize_column_name(col) \in _KVK_CANDIDATES \/ StartsWithKvk(_normalize_column_name(col))

\* The 1-based index of the first identifier column, 0 for None.
_find_kvk_index(header) ==
  LET hits == {i \in 1..Len(header) : IsKvkColumn(header[i])}
  IN IF hits = {} THEN 0 ELSE Min(hits)

RECURSIVE RStripChar(_, _)
RStripChar(t, c) ==
  IF t # <<>> /\ t[Len(t)] = c THEN RStripChar(SubSeq(t, 1, Len(t) - 1), c) ELSE t

\* str.strip() on a cell of digits and blanks
Strip(t) == RStripChar(LStripChar(t, " "), " ")

\* row[kvk_idx].strip() if kvk_idx < len(row) else ""
KvkVal(row, kvk_idx) == IF kvk_idx <= Len(row) THEN Strip(row[kvk_idx]) ELSE <<>>

\* DupYields without the seen set.
DupYieldsIgnoringSeen(kvk_val, existing, seen) == kvk_val = <<>> \/ kvk_val \notin existing

\* The generator yields the row: its identifier is empty, or neither external nor seen.
DupYields(kvk_val, existing, seen) ==
  kvk_val = <<>> \/ ~(kvk_val \in existing \/ kvk_val \in seen)

\* The seen set after the row.
DupSeen(kvk_val, existing, seen) ==
  IF kvk_val # <<>> /\ DupYields(kvk_val, existing, seen) THEN seen \cup {kvk_val} ELSE seen

Ids == {<<"1">>, <<"2">>}

KvkCells == {<<>>, <<" ">>, <<"1">>, <<" ", "1">>, <<"2">>, <<"2", " ">>}

OtherCell == <<"n">>

Headers ==
  {<<<<"K", "v", "K">>>>,
   <<<<"n">>, <<"B", "k", "v", "k", "_", "n", "r">>>>,
   <<<<"n">>, <<"v", "k">>>>}

\* The rows of a source with this header: ragged, the identifier cell free.
RowsOf(header) ==
  LET kv == _find_kvk_index(header)
  IN UNION {{r \in [1..n -> KvkCells \cup {OtherCell}] :
               \A i \in 1..n : (r[i] \in KvkCells) <=> (i = kv)} : n \in 0..Len(header)}

StreamsOf(header) == UNION {[1..n -> RowsOf(header)] : n \in 0..MaxLen}

\* The call itself: the folder and header checks, the load of the external set.
DupApply ==
  /\ dpPc = "call"
  /\ dpPc' = IF dpFolder = "" \/ _find_kvk_index(dpHeader) = 0 THEN "raised" ELSE "iter"
  /\ UNCHANGED <<dpFolder, dpHeader, dpRows, dpExisting, dpPos, dpSeen, dpOut>>
  /\ UNCHANGED <<saveVars, cacheVars, restVars>>

\* The generator takes the next upstream row.
DupStep ==
  /\ dpPc = "iter"
  /\ dpPos < Len(dpRows)
  /\ LET kvk_val == KvkVal(dpRows[dpPos + 1], _find_kvk_index(dpHeader))
     IN /\ dpOut' = IF DupYields(kvk_val, dpExisting, dpSeen)
                      THEN Append(dpOut, dpPos + 1) ELSE dpOut
        /\ dpSeen' = DupSeen(kvk_val, dpExisting, dpSeen)
  /\ dpPos' = dpPos + 1
  /\ UNCHANGED <<dpPc, dpFolder, dpHeader, dpRows, dpExisting>>
  /\ UNCHANGED <<saveVars, cacheVars, restVars>>

\* The upstream is exhausted.
DupEnd ==
  /\ dpPc = "iter"
  /\ dpPos = Len(dpRows)
  /\ dpPc' = "done"
  /\ UNCHANGED <<dpFolder, dpHeader, dpRows, dpExisting, dpPos, dpSeen, dpOut>>
  /\ UNCHANGED <<saveVars, cacheVars, restVars>>

DupNext == DupApply \/ DupStep \/ DupEnd

\* ================================================ _load_existing_kvk_numbers
MaxMtime == 2
MaxChanges == 2
MaxCalls == 2

FileNames == {"a.csv", "b.csv"}

\* What reading a csv file gives: "nokvk" (no header, or no identifier column),
\* "bad" (the read raises OSError, UnicodeDecodeError or csv.Error), or the set
\* of its stripped non-empty identifiers.
Contents ==
  {[kind |-> "nokvk", ids |-> {}], [kind |-> "bad", ids |-> {}]}
    \cup {[kind |-> "ids", ids |-> {id}] : id \in Ids}

NoFile == [present |-> FALSE, size |-> 0, mtime |-> 0, content |-> [kind |-> "nokvk", ids |-> {}]]

\* st_size of a file: a header line and one line per identifier, so that files
\* with different identifiers of the same length have the same size.
SizeOf(c) == IF c.kind = "ids" THEN 1 + Cardinality(c.ids) ELSE 1

Files ==
  {[present |-> TRUE, size |-> SizeOf(c), mtime |-> m, content |-> c] :
     m \in 1..MaxMtime, c \in Contents}

Present(fld) == {n \in FileNames : fld[n].present}

\* The orders in which iterdir may list the files.
Listings(fld) ==
  {l \in UNION {[1..n -> Present(fld)] : n \in 0..Cardinality(FileNames)} :
     /\ Len(l) = Cardinality(Present(fld))
     /\ \A i, j \in 1..Len(l) : i # j => l[i] # l[j]}

_folder_signature(fld, files) ==
  [i \in 1..Len(files) |-> <<files[i], fld[files[i]].size, fld[files[i]].mtime>>]

\* The (file name, size, mtime) triples of the folder, whatever the listing order.
SignatureSet(fld) == {<<n, fld[n].size, fld[n].mtime>> : n \in Present(fld)}

\* The identifiers of the folder's files that have an identifier column.
FolderIds(fld) ==
  UNION {IF fld[n].content.kind = "ids" THEN fld[n].content.ids ELSE {} : n \in Present(fld)}

NoCache == [present |-> FALSE, sig |-> <<>>, ids |-> {}]

\* CacheHit without the comparison of the signatures.
CacheHitAnySignature(cached, signature) == cached.present

\* cached and cached[0] == signature
CacheHit(cached, signature) == cached.present /\ cached.sig = signature

\* The rebuild loop over the listed files: "raised" when a file cannot be read.
Rebuild(fld, files) ==
  IF \E i \in 1..Len(files) : fld[files[i]].content.kind = "bad"
    THEN [ok |-> FALSE, ids |-> {}]
    ELSE [ok |-> TRUE,
          ids |-> UNION {IF fld[files[i]].content.kind = "ids"
                           THEN fld[files[i]].content.ids ELSE {} : i \in 1..Len(files)}]

\* The cache entry after a rebuild.
CacheStore(cached, signature, ids) == [present |-> TRUE, sig |-> signature, ids |-> ids]

\* A file of the folder is created, deleted or rewritten (content, size and
\* modification time are whatever the writer leaves).
FolderChange ==
  /\ chgCount < MaxChanges
  /\ \E n \in FileNames, f \in Files \cup {NoFile} :
       /\ f # folder[n]
       /\ folder' = [folder EXCEPT ![n] = f]
  /\ chgCount' = chgCount + 1
  /\ allAltered' = (allAltered /\ SignatureSet(folder') # SignatureSet(folder))
  /\ ldPc' = "idle"
  /\ UNCHANGED <<cache, ldResult, ldReread, ldCalls, builtAt, sigReused>>
  /\ UNCHANGED <<saveVars, dupVars, restVars>>

\* _load_existing_kvk_numbers(folder) on an existing directory.
LoadCall ==
  /\ ldCalls < MaxCalls
  /\ ldCalls' = ldCalls + 1
  /\ \E files \in Listings(folder) :
       LET signature == _folder_signature(folder, files)
           built == Rebuild(folder, files)
       IN IF CacheHit(cache, signature)
            THEN /\ ldPc' = "returned"
                 /\ ldResult' = cache.ids
                 /\ ldReread' = FALSE
                 /\ sigReused' = (builtAt # chgCount)
                 /\ UNCHANGED <<cache, builtAt>>
            ELSE /\ ldReread' = TRUE
                 /\ sigReused' = FALSE
                 /\ IF built.ok
                      THEN /\ ldPc' = "returned"
                           /\ ldResult' = built.ids
                           /\ cache' = CacheStore(cache, signature, built.ids)
                           /\ builtAt' = chgCount
                      ELSE /\ ldPc' = "raised"
                           /\ UNCHANGED <<ldResult, cache, builtAt>>
  /\ UNCHANGED <<folder, chgCount, allAltered>>
  /\ UNCHANGED <<saveVars, dupVars, restVars>>

CacheNext == FolderChange \/ LoadCall

\* ======================================================= the filter modules
\* A cell, a column name and a selection token are strings.  The conversions
\* the filters apply to them (strip, lower, upper, split, int, date parsing) are
\* given by their values on the strings the inputs are drawn from.  An index
\* into a header or a row is 1-based, 0 standing for None.

\* h.strip().lower() on a column name
NormName(h) ==
  IF h = "Rechtsvorm " THEN "rechtsvorm" ELSE IF h = "Fax" THEN "fax"
  ELSE IF h = "MainSBI " THEN "mainsbi" ELSE h

\* s.strip() on a cell or a token
StripS(s) ==
  IF s = " " THEN "" ELSE IF s = "NV " THEN "NV" ELSE IF s = " 1" THEN "1" ELSE s

LowerTable ==
  ("fax=TRUE" :> "fax=true") @@ ("fax=FALSE" :> "fax=false") @@
  ("phone=TRUE" :> "phone=true") @@ ("phone=FALSE" :> "phone=false") @@
  ("post=TRUE" :> "post=true") @@ ("post=FALSE" :> "post=false") @@
  ("hv=TRUE" :> "hv=true") @@ ("hv=FALSE" :> "hv=false") @@
  ("nm=TRUE" :> "nm=true") @@ ("nm=FALSE" :> "nm=false") @@
  ("tn=TRUE" :> "tn=true") @@ ("tn=FALSE" :> "tn=false") @@
  ("gd=UNKNOWN" :> "gd=unknown") @@ ("UNKNOWN" :> "unknown") @@
  ("Woonfunctie" :> "woonfunctie") @@ ("Email" :> "email") @@
  ("TRUE" :> "true") @@ ("FALSE" :> "false")

\* s.lower()
LowerS(s) == IF s \in DOMAIN LowerTable THEN LowerTable[s] ELSE s

\* s.upper()
UpperS(s) ==
  IF s = "true" THEN "TRUE" ELSE IF s = "false" THEN "FALSE"
  ELSE IF s = "nee" THEN "NEE" ELSE s

\* [h.strip().lower() for h in header].index(name), 0 when it raises ValueError
HeaderIndex(header, name) ==
  LET hits == {i \in 1..Len(header) : NormName(header[i]) = name}
  IN IF hits = {} THEN 0 ELSE Min(hits)

\* The index of the first candidate, in candidate order, that the header holds.
_find_col(header, candidates) ==
  LET found == {c \in 1..Len(candidates) : HeaderIndex(header, candidates[c]) # 0}
  IN IF found = {} THEN 0 ELSE HeaderIndex(header, candidates[Min(found)])

\* row[idx] if idx < len(row) else default
CellOr(row, idx, default) == IF idx <= Len(row) THEN row[idx] ELSE default

\* _has_value of media and traditional_outreach, _has_contact of contactpersoon:
\* a text that ast.literal_eval turns into an empty list, tuple, set or dict
\* holds no value.
HasValueEval(cell) ==
  LET s == StripS(cell)
  IN IF s = "" THEN FALSE
     ELSE IF s \in {"[]", "{}", "null", "None"} THEN FALSE
     ELSE s \notin {"[]", "{}", "()"}

\* ------------------------------------------------------------ rechtsvorm
RechtsvormMode(header, selected) ==
  IF selected = <<>> THEN "pass"
  ELSE IF HeaderIndex(header, "rechtsvorm") = 0 THEN "none"
  ELSE "test"

\* val = (row[idx] or "").strip() or "UNKNOWN": row[idx] raises IndexError on a
\* row that ends before the column.
RechtsvormRow(header, selected, row) ==
  LET idx == HeaderIndex(header, "rechtsvorm")
  IN IF idx > Len(row) THEN "raise"
     ELSE LET val == IF StripS(row[idx]) = "" THEN "UNKNOWN" ELSE StripS(row[idx])
          IN IF val \in {StripS(selected[i]) : i \in 1..Len(selected)}
               THEN "keep" ELSE "drop"

\* ------------------------------------------------------ economischactief
EconomischMode(header, selected) ==
  IF selected = <<>> THEN "pass"
  ELSE IF HeaderIndex(header, "economischactief") = 0 THEN "none"
  ELSE "test"

EconomischRow(header, selected, row) ==
  LET idx == HeaderIndex(header, "economischactief")
  IN IF idx > Len(row) THEN "raise"
     ELSE LET val == IF StripS(row[idx]) = "" THEN "UNKNOWN" ELSE StripS(row[idx])
          IN IF val \in {StripS(selected[i]) : i \in 1..Len(selected)}
               THEN "keep" ELSE "drop"

\* ----------------------------------------------------------------- media
COL_CANDIDATES ==
  ("email" :> <<"email", "e-mail", "emails">>) @@
  ("facebook" :> <<"facebook", "fb">>) @@
  ("instagram" :> <<"instagram", "ig">>) @@
  ("linkedin" :> <<"linkedin", "linked_in">>) @@
  ("pinterest" :> <<"pinterest">>) @@
  ("twitter" :> <<"twitter", "x">>) @@
  ("youtube" :> <<"youtube", "you_tube">>) @@
  ("internetaddress" :>
     <<"internetaddress", "website", "url", "site", "homepage", "web", "internet_adres">>)

\* COL_CANDIDATES.get(ch, [ch])
MediaCandidates(ch) == IF ch \in DOMAIN COL_CANDIDATES THEN COL_CANDIDATES[ch] ELSE <<ch>>

\* [v.strip().lower() for v in selected_values if v.strip()]
MediaSelected(selected) ==
  LET lowered == [i \in 1..Len(selected) |-> LowerS(StripS(selected[i]))]
  IN SelectSeq(lowered, LAMBDA v : v # "")

MediaMode(header, selected) ==
  LET sel == MediaSelected(selected)
  IN IF sel = <<>> THEN "pass"
     ELSE IF \E i \in 1..Len(sel) : _find_col(header, MediaCandidates(sel[i])) = 0 THEN "none"
     ELSE "test"

MediaRow(header, selected, row) ==
  LET sel == MediaSelected(selected)
  IN IF \A i \in 1..Len(sel) :
          HasValueEval(CellOr(row, _find_col(header, MediaCandidates(sel[i])), ""))
       THEN "keep" ELSE "drop"

\* -------------------------------------------------------- contactpersoon
ContactCandidates == <<"contactpersoon", "contact_persoon", "contact_person", "contactpersonen">>

\* {v.strip().upper() for v in selected_values}
ContactSel(selected) == {UpperS(StripS(selected[i])) : i \in 1..Len(selected)}

\* ContactMode with the missing column treated as for TRUE whatever is wanted.
ContactModeMissingBlocks(header, selected) ==
  LET sel == ContactSel(selected)
  IN IF sel = {} \/ sel = {"TRUE", "FALSE"} THEN "pass"
     ELSE IF _find_col(header, ContactCandidates) = 0 THEN "none"
     ELSE "test"

ContactMode(header, selected) ==
  LET sel == ContactSel(selected)
      want_true == "TRUE" \in sel /\ "FALSE" \notin sel
  IN IF sel = {} \/ sel = {"TRUE", "FALSE"} THEN "pass"
     ELSE IF _find_col(header, ContactCandidates) = 0
       THEN (IF want_true THEN "none" ELSE "pass")
     ELSE "test"

ContactRow(header, selected, row) ==
  LET sel == ContactSel(selected)
      want_true == "TRUE" \in sel /\ "FALSE" \notin sel
      want_false == "FALSE" \in sel /\ "TRUE" \notin sel
      present == HasValueEval(CellOr(row, _find_col(header, ContactCandidates), ""))
  IN IF want_true /\ present THEN "keep"
     ELSE IF want_false /\ ~present THEN "keep"
     ELSE "drop"

\* -------------------------------------------------- traditional_outreach
FAX_COL_CANDS == <<"faxnumber_formatted", "fax", "fax_number">>

PHONE_COL_CANDS == <<"phonenumber_formatted", "phone", "phone_number", "telephone", "telefoon">>

POSTAL_COL_CANDS ==
  <<"postaladdress", "postal_address", "postadres", "post_adres", "postbus", "specialpostadress">>

\* The booleans a flag's tokens add to its want set: the tokens are compared
\* after (v or "").strip().lower().
FlagWants(selected, true_token, false_token) ==
  {b \in BOOLEAN : \E i \in 1..Len(selected) :
     LowerS(StripS(selected[i])) = (IF b THEN true_token ELSE false_token)}

\* TriState with a conflicting selection read as TRUE.
TriStateConflictTrue(wants) ==
  IF TRUE \in wants THEN "true"
  ELSE IF FALSE \in wants THEN "false"
  ELSE "none"

\* The constraint of a flag: None when both or neither value is wanted.
TriState(wants) ==
  IF TRUE \in wants /\ FALSE \in wants THEN "none"
  ELSE IF TRUE \in wants THEN "true"
  ELSE IF FALSE \in wants THEN "false"
  ELSE "none"

_parse_constraints(selected) ==
  [fax |-> TriState(FlagWants(selected, "fax=true", "fax=false")),
   phone |-> TriState(FlagWants(selected, "phone=true", "phone=false")),
   post |-> TriState(FlagWants(selected, "post=true", "post=false"))]

OutreachMode(header, selected) ==
  LET cons == _parse_constraints(selected)
  IN IF cons.fax = "none" /\ cons.phone = "none" /\ cons.post = "none" THEN "pass"
     ELSE IF \/ cons.fax # "none" /\ _find_col(header, FAX_COL_CANDS) = 0
             \/ cons.phone # "none" /\ _find_col(header, PHONE_COL_CANDS) = 0
             \/ cons.post # "none" /\ _find_col(header, POSTAL_COL_CANDS) = 0
       THEN "none"
     ELSE "test"

\* present == cons[field] for a constrained flag
FlagOk(con, header, candidates, row) ==
  con = "none" \/
    (HasValueEval(IF _find_col(header, candidates) # 0
                    THEN CellOr(row, _find_col(header, candidates), "") ELSE "")
       <=> (con = "true"))

OutreachRow(header, selected, row) ==
  LET cons == _parse_constraints(selected)
  IN IF /\ FlagOk(cons.fax, header, FAX_COL_CANDS, row)
        /\ FlagOk(cons.phone, header, PHONE_COL_CANDS, row)
        /\ FlagOk(cons.post, header, POSTAL_COL_CANDS, row)
       THEN "keep" ELSE "drop"

\* ------------------------------------------------------------- vestiging
\* The aliases of the columns of apply.
VestigingColumns ==
  [gd |-> <<"gebruiksdoelverblijfsobject", "gebruiksdoel", "gebruiksdoel_verblijfsobject">>,
   hv |-> <<"hoofdvestiging", "is_hoofdv", "ishoofdvestiging">>,
   nm |-> <<"kvk_non_mailing_indicator", "non_mailing_indicator", "nonmailing", "non_mailing">>]

\* t[3:] of a token whose lower case starts with "gd="
GdOfToken(t) ==
  IF t = "gd=UNKNOWN" THEN "UNKNOWN" ELSE IF t = "gd=woonfunctie" THEN "woonfunctie" ELSE ""

IsGdToken(t) == t \in {"gd=UNKNOWN", "gd=woonfunctie"}

\* _parse_tokens of vestiging_filter; the surface tokens (oppmin, oppmax) are
\* not among the inputs.
VestigingTokens(selected) ==
  [gd |-> {GdOfToken(StripS(selected[i])) :
             i \in {j \in 1..Len(selected) : IsGdToken(StripS(selected[j]))}},
   hv |-> TriState(FlagWants(selected, "hv=true", "hv=false")),
   nm |-> TriState(FlagWants(selected, "nm=true", "nm=false"))]

VestigingMode(header, selected) ==
  LET cons == VestigingTokens(selected)
  IN IF cons.gd = {} /\ cons.hv = "none" /\ cons.nm = "none" THEN "pass"
     ELSE IF cons.gd # {} /\ _find_col(header, VestigingColumns.gd) = 0 THEN "none"
     ELSE IF cons.hv # "none" /\ _find_col(header, VestigingColumns.hv) = 0 THEN "none"
     ELSE IF cons.nm # "none" /\ _find_col(header, VestigingColumns.nm) = 0 THEN "none"
     ELSE "test"

\* _truthy of vestiging_filter: "true", "false" or "none"
VestigingTruthy(cell) ==
  LET s == UpperS(StripS(cell))
  IN IF s = "" THEN "none"
     ELSE IF s \in {"TRUE", "1", "J", "JA", "Y", "YES"} THEN "true"
     ELSE IF s \in {"FALSE", "0", "N", "NEE", "NO"} THEN "false"
     ELSE "none"

\* " ".join(val.strip().lower().split()) if val else "unknown"
GdValue(val) == IF val = "" THEN "unknown" ELSE LowerS(StripS(val))

VestigingRow(header, selected, row) ==
  LET cons == VestigingTokens(selected)
      gd_ok == cons.gd = {} \/
                 GdValue(CellOr(row, _find_col(header, VestigingColumns.gd), ""))
                   \in {LowerS(StripS(x)) : x \in cons.gd}
      hv_ok == cons.hv = "none" \/
                 VestigingTruthy(CellOr(row, _find_col(header, VestigingColumns.hv), "")) = cons.hv
      nm_ok == cons.nm = "none" \/
                 VestigingTruthy(CellOr(row, _find_col(header, VestigingColumns.nm), "")) = cons.nm
  IN IF gd_ok /\ hv_ok /\ nm_ok THEN "keep" ELSE "drop"

\* --------------------------------------------------------------- overige
DATE_COL_CANDS == <<"oprichtingsdatum", "oprichtings_datum", "date_of_incorporation", "foundation_date">>

TN_COL_CANDS == <<"tradenames", "trade_names", "handelsnamen", "handels_namen">>

\* A date is its rank among the dates of the inputs, 0 standing for None.
\* _parse_iso: y, m, d = s.split("-"); date(int(y), int(m), int(d))
_parse_iso(s) ==
  IF s = "2019-03-11" THEN 1
  ELSE IF s = "2020-01-01" THEN 2
  ELSE IF s = "2021-01-01" THEN 3
  ELSE 0

\* _parse_nl_date: "<day> <month name> <year>" with the names of NL_MONTHS
_parse_nl_date(s) ==
  IF s = "11 maart 2019" THEN 1
  ELSE IF s = "1 januari 2021" THEN 3
  ELSE 0

_parse_any_date(s) ==
  IF s = "" THEN 0
  ELSE IF _parse_iso(StripS(s)) # 0 THEN _parse_iso(StripS(s))
  ELSE _parse_nl_date(StripS(s))

\* t.split("=", 1)[1] of a date token
DateOfToken(t) ==
  IF t \in {"date_min=2019-03-11", "date_max=2019-03-11"} THEN "2019-03-11"
  ELSE IF t \in {"date_min=2021-01-01", "date_max=2021-01-01"} THEN "2021-01-01"
  ELSE ""

IsDateMinToken(t) == t \in {"date_min=2019-03-11", "date_min=2021-01-01"}

IsDateMaxToken(t) == t \in {"date_max=2019-03-11", "date_max=2021-01-01"}

\* The bound the last token of a kind leaves, 0 when there is none.
LastDate(selected, IsKind(_)) ==
  LET at == {i \in 1..Len(selected) : IsKind(StripS(selected[i]))}
  IN IF at = {} THEN 0
     ELSE _parse_iso(DateOfToken(StripS(selected[CHOOSE i \in at : \A j \in at : j <= i])))

\* _parse_tokens of overige_filter
OverigeTokens(selected) ==
  [date_min |-> LastDate(selected, IsDateMinToken),
   date_max |-> LastDate(selected, IsDateMaxToken),
   tn |-> TriState(FlagWants(selected, "tn=true", "tn=false"))]

\* _has_value of overige_filter
OverigeHasValue(cell) ==
  LET s == StripS(cell)
  IN ~(s = "" \/ s \in {"[]", "{}", "null", "None"})

OverigeMode(header, selected) ==
  LET cons == OverigeTokens(selected)
      dated == cons.date_min # 0 \/ cons.date_max # 0
  IN IF ~dated /\ cons.tn = "none" THEN "pass"
     ELSE IF dated /\ _find_col(header, DATE_COL_CANDS) = 0 THEN "none"
     ELSE IF cons.tn # "none" /\ _find_col(header, TN_COL_CANDS) = 0 THEN "none"
     ELSE "test"

OverigeRow(header, selected, row) ==
  LET cons == OverigeTokens(selected)
      dated == cons.date_min # 0 \/ cons.date_max # 0
      parsed == _parse_any_date(CellOr(row, _find_col(header, DATE_COL_CANDS), ""))
      date_ok == ~dated \/
                   /\ parsed # 0
                   /\ (cons.date_min = 0 \/ cons.date_min <= parsed)
                   /\ (cons.date_max = 0 \/ parsed <= cons.date_max)
      tn_ok == cons.tn = "none" \/
                 (OverigeHasValue(CellOr(row, _find_col(header, TN_COL_CANDS), ""))
                    <=> (cons.tn = "true"))
  IN IF date_ok /\ tn_ok THEN "keep" ELSE "drop"

\* --------------------------------------------------------- workingnumber
CANDS_MIN == <<"workingminimum", "working_minimum", "werk_min", "min_employees">>

CANDS_MAX == <<"workingmaximum", "working_maximum", "werk_max", "max_employees">>

UNKNOWN_SENTINEL == 999999999

IntTable ==
  ("0" :> 0) @@ ("5" :> 5) @@ ("6" :> 6) @@ ("8" :> 8) @@ ("10" :> 10) @@ ("20" :> 20) @@ ("30" :> 30) @@
  ("999999999" :> 999999999)

\* _to_int_or_none of workingnumber_filter: None is [ok |-> FALSE]
_to_int_or_none(s) ==
  IF StripS(s) \in DOMAIN IntTable THEN [ok |-> TRUE, v |-> IntTable[StripS(s)]]
  ELSE [ok |-> FALSE, v |-> 0]

\* selected_values[i] when the list is that long
UserBound(selected, i) ==
  IF Len(selected) >= i THEN _to_int_or_none(selected[i]) ELSE [ok |-> FALSE, v |-> 0]

WorkingMode(header, selected) ==
  IF ~UserBound(selected, 1).ok /\ ~UserBound(selected, 2).ok THEN "pass"
  ELSE IF _find_col(header, CANDS_MIN) = 0 \/ _find_col(header, CANDS_MAX) = 0 THEN "none"
  ELSE "test"

\* WorkingRow without the exclusion of the sentinel maximum.
WorkingRowSentinelKept(header, selected, row) ==
  LET u_min == UserBound(selected, 1)
      u_max == UserBound(selected, 2)
      r_min == _to_int_or_none(CellOr(row, _find_col(header, CANDS_MIN), ""))
      r_max == _to_int_or_none(CellOr(row, _find_col(header, CANDS_MAX), ""))
  IN IF ~r_min.ok \/ ~r_max.ok THEN "drop"
     ELSE IF r_min.v > r_max.v THEN "drop"
     ELSE IF (u_max.ok => r_min.v <= u_max.v) /\ (u_min.ok => u_min.v <= r_max.v) THEN "keep"
     ELSE "drop"

WorkingRow(header, selected, row) ==
  LET u_min == UserBound(selected, 1)
      u_max == UserBound(selected, 2)
      r_min == _to_int_or_none(CellOr(row, _find_col(header, CANDS_MIN), ""))
      r_max == _to_int_or_none(CellOr(row, _find_col(header, CANDS_MAX), ""))
  IN IF ~r_min.ok \/ ~r_max.ok \/ r_max.v = UNKNOWN_SENTINEL THEN "drop"
     ELSE IF r_min.v > r_max.v THEN "drop"
     ELSE IF (u_max.ok => r_min.v <= u_max.v) /\ (u_min.ok => u_min.v <= r_max.v) THEN "keep"
     ELSE "drop"

\* --------------------------------------------------------------- sbi_filter
\* The selection of the sbi filter is the dict form: for each bucket the list of
\* manually entered codes and the stem of an uploaded list ("" for none).
BUCKETS == <<"main", "sub", "all">>

SbiColCands ==
  [main |-> <<"mainsbi", "main_sbi", "hoofd_sbi", "hoofdactiviteit">>,
   sub |-> <<"subsbi", "sub_sbi", "nevenactiviteiten", "nevensbi">>,
   all |-> <<"allsbi", "all_sbi", "alle_sbi", "sbi_codes">>]

\* _normalize_code: the stripped code, "" for None.
_normalize_code(code) ==
  IF code \in {"", " "} THEN "" ELSE IF code = " 62 " THEN "62" ELSE code

\* _parse_row_codes: the brackets are removed, the rest is split at the commas
\* and each part stripped of blanks and quotes.
_parse_row_codes(cell) ==
  IF cell \in {"", " ", "[]"} THEN {}
  ELSE IF cell = "62" THEN {"62"}
  ELSE IF cell = " 63" THEN {"63"}
  ELSE IF cell = "['63', '64']" THEN {"63", "64"}
  ELSE IF cell = "[62,63]" THEN {"62", "63"}
  ELSE {cell}

\* The uploaded lists on disk, the same in each bucket: the codes of
\* <bucket>/<stem>.txt, each line after _normalize_code.  _CACHE holds what the
\* file held when it was read; save_uploaded_csv drops the entry it rewrites.
_load_codes_from_file(bucket, stem) ==
  IF stem = "list63" THEN {"63"} ELSE {}

\* The active codes of a bucket: the manual codes and those of the referenced list.
SbiActiveCodes(selected, bucket) ==
  LET data == selected[bucket]
      manual == {_normalize_code(data.codes[i]) : i \in 1..Len(data.codes)} \ {""}
  IN IF data.file # "" THEN manual \cup _load_codes_from_file(bucket, data.file) ELSE manual

\* idx_main, idx_sub, idx_all: looked up only for a bucket with active codes.
SbiIndex(header, selected, bucket) ==
  IF SbiActiveCodes(selected, bucket) # {} THEN _find_col(header, SbiColCands[bucket]) ELSE 0

SbiMode(header, selected) ==
  IF \A b \in {"main", "sub", "all"} : SbiActiveCodes(selected, b) = {} THEN "pass" ELSE "test"

\* SbiRow with a bucket of active codes whose column is missing dropping the row.
SbiRowMissingColumnDrops(header, selected, row) ==
  IF \A b \in {"main", "sub", "all"} :
       SbiActiveCodes(selected, b) # {} =>
         /\ _find_col(header, SbiColCands[b]) # 0
         /\ _parse_row_codes(CellOr(row, _find_col(header, SbiColCands[b]), ""))
              \cap SbiActiveCodes(selected, b) # {}
    THEN "keep" ELSE "drop"

\* The loop body of apply: the buckets are tested in the order main, sub, all,
\* each only when its index is not None.
SbiRow(header, selected, row) ==
  IF \A k \in 1..Len(BUCKETS) :
       LET idx == SbiIndex(header, selected, BUCKETS[k])
       IN idx # 0 =>
            _parse_row_codes(CellOr(row, idx, "")) \cap SbiActiveCodes(selected, BUCKETS[k]) # {}
    THEN "keep" ELSE "drop"

\* ---------------------------------------------------------- _apply_filters
\* A selection map is the sequence of its items, [k |-> key, selected |-> list],
\* in the order dict.items() gives them.  A filter called on a header and a
\* selection is in one of three modes: "pass" (it yields from its upstream),
\* "none" (it returns before reading a row) and "test" (it tests every row).
\* A key that FILTERS does not hold is skipped.
Mode(k, header, selected) ==
  IF k = "rechtsvorm" THEN RechtsvormMode(header, selected)
  ELSE IF k = "economischactief" THEN EconomischMode(header, selected)
  ELSE IF k = "media" THEN MediaMode(header, selected)
  ELSE IF k = "contactpersoon" THEN ContactMode(header, selected)
  ELSE IF k = "traditional_outreach" THEN OutreachMode(header, selected)
  ELSE IF k = "vestiging" THEN VestigingMode(header, selected)
  ELSE IF k = "overige" THEN OverigeMode(header, selected)
  ELSE IF k = "workingnumber" THEN WorkingMode(header, selected)
  ELSE IF k = "sbi" THEN SbiMode(header, selected)
  ELSE "pass"

\* What a filter in mode "test" does with a row: "keep", "drop" or "raise".
RowTest(k, header, selected, row) ==
  IF k = "rechtsvorm" THEN RechtsvormRow(header, selected, row)
  ELSE IF k = "economischactief" THEN EconomischRow(header, selected, row)
  ELSE IF k = "media" THEN MediaRow(header, selected, row)
  ELSE IF k = "contactpersoon" THEN ContactRow(header, selected, row)
  ELSE IF k = "traditional_outreach" THEN OutreachRow(header, selected, row)
  ELSE IF k = "vestiging" THEN VestigingRow(header, selected, row)
  ELSE IF k = "overige" THEN OverigeRow(header, selected, row)
  ELSE IF k = "sbi" THEN SbiRow(header, selected, row)
  ELSE WorkingRow(header, selected, row)

\* Some generator of the chain returns without pulling from its upstream, so
\* that no row of the source is ever read.
ChainBlocked(header, items) ==
  \E i \in 1..Len(items) : Mode(items[i].k, header, items[i].selected) = "none"

\* A source row travels down the chain of generators from the i-th on: the
\* first filter that drops it or raises on it decides.
RECURSIVE ChainRow(_, _, _, _)
ChainRow(header, items, row, i) ==
  IF i > Len(items) THEN "keep"
  ELSE IF Mode(items[i].k, header, items[i].selected) = "pass"
    THEN ChainRow(header, items, row, i + 1)
  ELSE LET r == RowTest(items[i].k, header, items[i].selected, row)
       IN IF r = "keep" THEN ChainRow(header, items, row, i + 1) ELSE r

\* A string as the text (sequence of characters) the duplicate filter reads.
TextOf ==
  ("" :> <<>>) @@ ("1" :> <<"1">>) @@ (" 1" :> <<" ", "1">>) @@ ("x" :> <<"x">>) @@
  ("NV " :> <<"N", "V", " ">>) @@ ("TRUE" :> <<"T", "R", "U", "E">>) @@
  ("kvk" :> <<"k", "v", "k">>) @@
  ("email" :> <<"e", "m", "a", "i", "l">>) @@
  ("rechtsvorm" :> <<"r", "e", "c", "h", "t", "s", "v", "o", "r", "m">>) @@
  ("economischactief" :>
     <<"e", "c", "o", "n", "o", "m", "i", "s", "c", "h", "a", "c", "t", "i", "e", "f">>)

TextRow(row) == [i \in 1..Len(row) |-> TextOf[row[i]]]

\* The advanced options: filterDuplicates after _coerce_bool, and the folder.
NoAdvanced == [filterDuplicates |-> FALSE, folder |-> ""]

\* The duplicate stage is asked for and its call raises: no folder, or no
\* identifier column in the header.
DupCallRaises(adv, header) ==
  adv.filterDuplicates /\ (adv.folder = "" \/ _find_kvk_index(TextRow(header)) = 0)

MaxRows == 2

\* _apply_filters builds the chain; the call of _apply_duplicate_filter checks
\* its arguments and loads the external identifiers before any row is read.
FilterStart ==
  /\ flPc = "call"
  /\ flPc' = IF DupCallRaises(flDup, flHeader) THEN "raised" ELSE "run"
  /\ UNCHANGED <<flHeader, flRows, flSelected, flDup, flExisting, flPos, flSeen, flOut>>
  /\ UNCHANGED <<saveVars, dupVars, cacheVars, polyVars, requestVars, analyzerVars, moreVars>>

\* The consumer pulls: the next source row goes through the chain, and a row
\* that every filter keeps goes through the duplicate stage when there is one.
FilterRow ==
  /\ flPc = "run"
  /\ ~ChainBlocked(flHeader, flSelected)
  /\ flPos < Len(flRows)
  /\ LET row == flRows[flPos + 1]
         r == ChainRow(flHeader, flSelected, row, 1)
         kvk_val == KvkVal(TextRow(row), _find_kvk_index(TextRow(flHeader)))
         dup == flDup.filterDuplicates
         yields == r = "keep" /\ (dup => DupYields(kvk_val, flExisting, flSeen))
     IN /\ flPc' = IF r = "raise" THEN "raised" ELSE "run"
        /\ flOut' = IF yields THEN Append(flOut, flPos + 1) ELSE flOut
        /\ flSeen' = IF r = "keep" /\ dup THEN DupSeen(kvk_val, flExisting, flSeen) ELSE flSeen
  /\ flPos' = flPos + 1
  /\ UNCHANGED <<flHeader, flRows, flSelected, flDup, flExisting>>
  /\ UNCHANGED <<saveVars, dupVars, cacheVars, polyVars, requestVars, analyzerVars, moreVars>>

\* The outermost generator ends: the source is exhausted, or a generator of
\* the chain returned at once.
FilterEnd ==
  /\ flPc = "run"
  /\ ChainBlocked(flHeader, flSelected) \/ flPos = Len(flRows)
  /\ flPc' = "done"
  /\ UNCHANGED <<flHeader, flRows, flSelected, flDup, flExisting, flPos, flSeen, flOut>>
  /\ UNCHANGED <<saveVars, dupVars, cacheVars, polyVars, requestVars, analyzerVars, moreVars>>

FilterNext == FilterStart \/ FilterRow \/ FilterEnd

\* -- inputs of the chain: three filters in every order, with the duplicate stage
PipeItem ==
  ("rechtsvorm" :> [k |-> "rechtsvorm", selected |-> <<"NV">>]) @@
  ("economischactief" :> [k |-> "economischactief", selected |-> <<"TRUE">>]) @@
  ("media" :> [k |-> "media", selected |-> <<"Email">>])

\* The selection maps: every subset of the three filters in every order.
PipeSelections ==
  UNION {{s \in [1..n -> {PipeItem[k] : k \in DOMAIN PipeItem}] :
            \A i, j \in 1..n : i # j => s[i] # s[j]} : n \in 0..3}

PipeHeaders ==
  {<<"kvk", "email", "rechtsvorm">>,
   <<"kvk", "rechtsvorm", "economischactief">>,
   <<"email", "economischactief">>}

\* The cells a column of the source holds.
PipeCells(col) ==
  IF col = "kvk" THEN {"1", " 1"}
  ELSE IF col = "email" THEN {"x", ""}
  ELSE IF col = "rechtsvorm" THEN {"NV ", ""}
  ELSE {"TRUE"}

\* The rows of a source: each may end before the header does.
RowsOver(header, Cells(_)) ==
  UNION {{r \in [1..n -> UNION {Cells(header[i]) : i \in 1..Len(header)}] :
            \A i \in 1..n : r[i] \in Cells(header[i])} : n \in 0..Len(header)}

PipeStreams(header) == UNION {[1..n -> RowsOver(header, PipeCells)] : n \in 0..MaxRows}

PipeAdvanced ==
  {NoAdvanced, [filterDuplicates |-> TRUE, folder |-> ""],
   [filterDuplicates |-> TRUE, folder |-> "dups"]}

\* -- inputs of one filter alone: the five filters of tokens and bounds
\* The ways to select the two tokens of a flag.
Choices(true_token, false_token) ==
  {<<>>, <<true_token>>, <<false_token>>, <<true_token, false_token>>}

SingleSelections(k) ==
  IF k = "contactpersoon" THEN Choices("TRUE", "FALSE") \cup {<<"true">>}
  ELSE IF k = "traditional_outreach"
    THEN {a \o b \o c : a \in Choices("fax=TRUE", "fax=FALSE"),
                        b \in Choices("phone=TRUE", "phone=FALSE"),
                        c \in Choices("post=TRUE", "post=FALSE")}
  ELSE IF k = "vestiging"
    THEN {a \o b : a \in Choices("gd=UNKNOWN", "gd=woonfunctie"),
                   b \in Choices("hv=TRUE", "hv=FALSE")}
         \cup Choices("nm=TRUE", "nm=FALSE")
  ELSE IF k = "overige"
    THEN {a \o b \o c : a \in {<<>>, <<"date_min=2019-03-11">>, <<"date_min=2021-01-01">>},
                        b \in {<<>>, <<"date_max=2019-03-11">>, <<"date_max=2021-01-01">>},
                        c \in Choices("tn=TRUE", "tn=FALSE")}
  ELSE {<<>>} \cup {<<u_min, u_max>> : u_min \in {"", "10"}, u_max \in {"", "6"}}

SingleHeadersOf(k) ==
  IF k = "contactpersoon" THEN {<<"contactpersoon">>, <<"id">>}
  ELSE IF k = "traditional_outreach" THEN {<<"Fax", "phone", "postbus">>, <<"phone">>, <<"Fax">>}
  ELSE IF k = "vestiging"
    THEN {<<"gebruiksdoel", "hoofdvestiging">>, <<"non_mailing">>, <<"hoofdvestiging">>}
  ELSE IF k = "overige"
    THEN {<<"oprichtingsdatum", "tradenames">>, <<"oprichtingsdatum">>, <<"tradenames">>}
  ELSE {<<"workingminimum", "workingmaximum">>, <<"workingminimum">>}

SingleKeys ==
  {"contactpersoon", "traditional_outreach", "vestiging", "overige", "workingnumber"}

SingleHeaders == UNION {SingleHeadersOf(k) : k \in SingleKeys}

\* The selection maps of one item over the filter whose source the header is of.
SingleItems(header) ==
  UNION {{<<[k |-> k, selected |-> s]>> : s \in SingleSelections(k)} :
           k \in {q \in SingleKeys : header \in SingleHeadersOf(q)}}

SingleCells(col) ==
  IF col = "contactpersoon" THEN {"x", "[]"}
  ELSE IF col = "id" THEN {"1"}
  ELSE IF col = "Fax" THEN {"x", "()"}
  ELSE IF col = "phone" THEN {"x", ""}
  ELSE IF col = "postbus" THEN {"x"}
  ELSE IF col = "gebruiksdoel" THEN {"", "Woonfunctie", "foo"}
  ELSE IF col = "hoofdvestiging" THEN {"true", "0"}
  ELSE IF col = "non_mailing" THEN {"false", "x"}
  ELSE IF col = "oprichtingsdatum" THEN {"2019-03-11", "20200101", "1 januari 2021", "x"}
  ELSE IF col = "tradenames" THEN {"x", "[]"}
  ELSE IF col = "workingminimum" THEN {"5", "20", "x"}
  ELSE {"8", "30", "999999999"}

SingleStreams(header) == UNION {[1..n -> RowsOver(header, SingleCells)] : n \in 0..MaxRows}

\* -- inputs of the sbi filter alone
SbiBucketSelections ==
  {[codes |-> <<>>, file |-> ""], [codes |-> <<"62">>, file |-> ""],
   [codes |-> <<" 62 ", " ">>, file |-> "list63"], [codes |-> <<>>, file |-> "gone"]}

SbiItems ==
  {<<[k |-> "sbi", selected |-> [main |-> m, sub |-> s, all |-> a]]>> :
     m \in SbiBucketSelections, s \in SbiBucketSelections, a \in SbiBucketSelections}

SbiHeaders == {<<"MainSBI ", "all_sbi">>, <<"subsbi">>, <<"id">>}

SbiCells(col) ==
  IF col = "MainSBI " THEN {"62", "['63', '64']", ""}
  ELSE IF col = "subsbi" THEN {" 63", "[]"}
  ELSE IF col = "id" THEN {"1"}
  ELSE {"[62,63]", "64"}

SbiStreams(header) == UNION {[1..n -> RowsOver(header, SbiCells)] : n \in 0..MaxRows}

\* ================================================= location_filter's cache
\* The module globals _CACHE_READY, _PROV_GEOMS, _PROV_NAMES, _CUST_GEOMS and
\* _CUST_NAMES, and two threads of the server that each make one call of
\* _load_all or of invalidate_cache.  Nothing serialises the calls; a step of a
\* thread is one store to a global or one append to the list a global is bound
\* to at that moment.
Threads == {1, 2}

MaxProv == 2
MaxCust == 1

\* The polygons of the provinces file and of the custom files, in load order.
LoadOrder ==
  [i \in 1..(MaxProv + MaxCust) |->
     IF i <= MaxProv THEN [kind |-> "prov", id |-> i]
     ELSE [kind |-> "cust", id |-> i - MaxProv]]

\* The name the loader gives a polygon (a property of the feature, or
\* "custom:" and the file stem).
NameOf(f) == <<"name", f.kind, f.id>>

ThreadAt(pc, i) == [pc |-> pc, i |-> i]

\* The four stores of "_PROV_GEOMS, _PROV_NAMES = [], []" and
\* "_CUST_GEOMS, _CUST_NAMES = [], []", the i-th being done now.
PolyStore(i) ==
  /\ plProvGeoms' = IF i = 1 THEN <<>> ELSE plProvGeoms
  /\ plProvNames' = IF i = 2 THEN <<>> ELSE plProvNames
  /\ plCustGeoms' = IF i = 3 THEN <<>> ELSE plCustGeoms
  /\ plCustNames' = IF i = 4 THEN <<>> ELSE plCustNames

\* Where the loader goes after the i-th polygon (0: after the resets).
AfterPolygon(i) ==
  IF i < Len(LoadOrder) THEN ThreadAt("geom", i + 1) ELSE ThreadAt("ready", 0)

\* _load_all: "if _CACHE_READY: return"
PolyCheck(t) ==
  /\ plThread[t].pc = "start"
  /\ plThread' = [plThread EXCEPT ![t] =
                    IF plReady THEN ThreadAt("done", 0) ELSE ThreadAt("reset", 1)]
  /\ UNCHANGED <<plReady, plProvGeoms, plProvNames, plCustGeoms, plCustNames>>
  /\ UNCHANGED <<saveVars, dupVars, cacheVars, filterVars, requestVars, analyzerVars, moreVars>>

\* _load_all rebinds the four globals to new empty lists.
PolyReset(t) ==
  /\ plThread[t].pc = "reset"
  /\ PolyStore(plThread[t].i)
  /\ plThread' = [plThread EXCEPT ![t] =
                    IF plThread[t].i < 4 THEN ThreadAt("reset", plThread[t].i + 1)
                    ELSE AfterPolygon(0)]
  /\ UNCHANGED plReady
  /\ UNCHANGED <<saveVars, dupVars, cacheVars, filterVars, requestVars, analyzerVars, moreVars>>

\* _PROV_GEOMS.append(g) or _CUST_GEOMS.append(g)
PolyAppendGeom(t) ==
  /\ plThread[t].pc = "geom"
  /\ LET f == LoadOrder[plThread[t].i]
     IN /\ plProvGeoms' = IF f.kind = "prov" THEN Append(plProvGeoms, f) ELSE plProvGeoms
        /\ plCustGeoms' = IF f.kind = "cust" THEN Append(plCustGeoms, f) ELSE plCustGeoms
  /\ plThread' = [plThread EXCEPT ![t] = ThreadAt("name", plThread[t].i)]
  /\ UNCHANGED <<plReady, plProvNames, plCustNames>>
  /\ UNCHANGED <<saveVars, dupVars, cacheVars, filterVars, requestVars, analyzerVars, moreVars>>

\* _PROV_NAMES.append(pname) or _CUST_NAMES.append(nm)
PolyAppendName(t) ==
  /\ plThread[t].pc = "name"
  /\ LET f == LoadOrder[plThread[t].i]
     IN /\ plProvNames' = IF f.kind = "prov" THEN Append(plProvNames, NameOf(f)) ELSE plProvNames
        /\ plCustNames' = IF f.kind = "cust" THEN Append(plCustNames, NameOf(f)) ELSE plCustNames
  /\ plThread' = [plThread EXCEPT ![t] = AfterPolygon(plThread[t].i)]
  /\ UNCHANGED <<plReady, plProvGeoms, plCustGeoms>>
  /\ UNCHANGED <<saveVars, dupVars, cacheVars, filterVars, requestVars, analyzerVars, moreVars>>

\* _CACHE_READY = True
PolySetReady(t) ==
  /\ plThread[t].pc = "ready"
  /\ plReady' = TRUE
  /\ plThread' = [plThread EXCEPT ![t] = ThreadAt("done", 0)]
  /\ UNCHANGED <<plProvGeoms, plProvNames, plCustGeoms, plCustNames>>
  /\ UNCHANGED <<saveVars, dupVars, cacheVars, filterVars, requestVars, analyzerVars, moreVars>>

\* invalidate_cache: _CACHE_READY = False
PolyInvalidate(t) ==
  /\ plThread[t].pc = "start"
  /\ plReady' = FALSE
  /\ plThread' = [plThread EXCEPT ![t] = ThreadAt("inv", 1)]
  /\ UNCHANGED <<plProvGeoms, plProvNames, plCustGeoms, plCustNames>>
  /\ UNCHANGED <<saveVars, dupVars, cacheVars, filterVars, requestVars, analyzerVars, moreVars>>

\* invalidate_cache rebinds the four globals to new empty lists.
PolyInvalidateReset(t) ==
  /\ plThread[t].pc = "inv"
  /\ PolyStore(plThread[t].i)
  /\ plThread' = [plThread EXCEPT ![t] =
                    IF plThread[t].i < 4 THEN ThreadAt("inv", plThread[t].i + 1)
                    ELSE ThreadAt("done", 0)]
  /\ UNCHANGED plReady
  /\ UNCHANGED <<saveVars, dupVars, cacheVars, filterVars, requestVars, analyzerVars, moreVars>>

PolyNext ==
  \E t \in Threads :
    \/ PolyCheck(t)
    \/ PolyReset(t)
    \/ PolyAppendGeom(t)
    \/ PolyAppendName(t)
    \/ PolySetReady(t)
    \/ PolyInvalidate(t)
    \/ PolyInvalidateReset(t)

\* ================================ two requests with duplicate filtering
\* Each request has its own handle on the source (its read position) and its
\* own generator of _apply_duplicate_filter (its existing and seen sets); the
\* folder and _DUPLICATE_CACHE are shared.  A step of a request is the call of
\* _apply_duplicate_filter or one pull of the consumer.
Requests == {1, 2}

IdleRequest == [pc |-> "idle", existing |-> {}, pos |-> 0, seen |-> {}, out |-> <<>>]

\* A csv file of the folder with this content.
FileOf(c) == [present |-> TRUE, size |-> SizeOf(c), mtime |-> 1, content |-> c]

RequestFolders ==
  {[n \in FileNames |-> NoFile],
   [n \in FileNames |->
      IF n = "a.csv" THEN FileOf([kind |-> "ids", ids |-> {<<"1">>}]) ELSE NoFile],
   [n \in FileNames |->
      IF n = "a.csv" THEN FileOf([kind |-> "ids", ids |-> {<<"2">>}])
      ELSE FileOf([kind |-> "bad", ids |-> {}])]}

RequestStreams(header) == UNION {[1..n -> RowsOf(header)] : n \in 0..MaxRows}

\* RequestSeen with one set for all the requests.
RequestSeenShared(r) == UNION {rqReq[q].seen : q \in Requests}

\* The seen set of the generator of request r.
RequestSeen(r) == rqReq[r].seen

\* _apply_duplicate_filter(filtered, header, folder): the header check, then
\* _load_existing_kvk_numbers on the shared cache.
RequestOpen(r) ==
  /\ rqReq[r].pc = "start"
  /\ IF _find_kvk_index(rqHeader) = 0
       THEN /\ rqReq' = [rqReq EXCEPT ![r].pc = "raised"]
            /\ UNCHANGED rqCache
       ELSE \E files \in Listings(rqFolder) :
              LET signature == _folder_signature(rqFolder, files)
                  built == Rebuild(rqFolder, files)
              IN IF CacheHit(rqCache, signature)
                   THEN /\ rqReq' = [rqReq EXCEPT ![r].pc = "iter",
                                                  ![r].existing = rqCache.ids]
                        /\ UNCHANGED rqCache
                   ELSE IF built.ok
                     THEN /\ rqReq' = [rqReq EXCEPT ![r].pc = "iter",
                                                    ![r].existing = built.ids]
                          /\ rqCache' = CacheStore(rqCache, signature, built.ids)
                     ELSE /\ rqReq' = [rqReq EXCEPT ![r].pc = "raised"]
                          /\ UNCHANGED rqCache
  /\ UNCHANGED <<rqFolder, rqHeader, rqRows>>
  /\ UNCHANGED <<saveVars, dupVars, cacheVars, filterVars, polyVars, analyzerVars, moreVars>>

\* The consumer of request r pulls the next row of its handle.
RequestRow(r) ==
  /\ rqReq[r].pc = "iter"
  /\ rqReq[r].pos < Len(rqRows)
  /\ LET kvk_val == KvkVal(rqRows[rqReq[r].pos + 1], _find_kvk_index(rqHeader))
         yields == DupYields(kvk_val, rqReq[r].existing, RequestSeen(r))
     IN rqReq' = [rqReq EXCEPT
                    ![r].pos = @ + 1,
                    ![r].out = IF yields THEN Append(@, rqReq[r].pos + 1) ELSE @,
                    ![r].seen = DupSeen(kvk_val, rqReq[r].existing, RequestSeen(r))]
  /\ UNCHANGED <<rqFolder, rqCache, rqHeader, rqRows>>
  /\ UNCHANGED <<saveVars, dupVars, cacheVars, filterVars, polyVars, analyzerVars, moreVars>>

\* The handle of request r is exhausted.
RequestEnd(r) ==
  /\ rqReq[r].pc = "iter"
  /\ rqReq[r].pos = Len(rqRows)
  /\ rqReq' = [rqReq EXCEPT ![r].pc = "done"]
  /\ UNCHANGED <<rqFolder, rqCache, rqHeader, rqRows>>
  /\ UNCHANGED <<saveVars, dupVars, cacheVars, filterVars, polyVars, analyzerVars, moreVars>>

RequestNext == \E r \in Requests : RequestOpen(r) \/ RequestRow(r) \/ RequestEnd(r)

\* ======================================================= StreamingAnalyzer
MEDIA_FIELDS ==
  {"email", "facebook", "instagram", "linkedin", "pinterest", "twitter", "youtube",
   "internetaddress"}

COLUMN_CANDIDATES ==
  [rechtsvorm |-> <<"rechtsvorm", "legal_form", "rechts_vorm">>,
   economischactief |-> <<"economischactief", "is_economisch_actief">>,
   contactpersoon |-> <<"contactpersoon", "contact_person", "contacten", "contactperson">>,
   kvk |-> <<"kvk", "kvknummer", "kvk_nummer", "kvk-nummer">>,
   vestiging |-> <<"vestigingnummer", "vestiging_nummer", "vnr", "vestiging_id">>,
   email |-> <<"email", "e-mail", "mail">>,
   facebook |-> <<"facebook">>,
   instagram |-> <<"instagram">>,
   linkedin |-> <<"linkedin">>,
   pinterest |-> <<"pinterest">>,
   twitter |-> <<"twitter", "x_twitter">>,
   youtube |-> <<"youtube", "you_tube">>,
   internetaddress |-> <<"internetaddress", "website", "homepage", "internetadres", "url">>,
   phone |-> <<"phonenumber_formatted", "phone", "phone_number", "telefoon", "telefoonnummer">>,
   fax |-> <<"faxnumber_formatted", "fax", "faxnummer">>,
   gebruiksdoel |-> <<"gebruiksdoelverblijfsobject", "gebruiksdoel", "gebruiksfunctie">>,
   oppervlakte |-> <<"oppervlakteverblijfsobject", "oppervlakte", "area_m2">>,
   working_min |-> <<"workingminimum", "working_minimum", "min_employees", "werknemers_min">>,
   working_max |-> <<"workingmaximum", "working_maximum", "max_employees", "werknemers_max">>,
   oprichtingsdatum |->
     <<"oprichtingsdatum", "foundationdate", "oprichting", "datum_oprichting", "foundation_date">>,
   allsbi |-> <<"allsbi", "sbi_all", "all_sbi", "sbicodes", "sbi_codes", "sbi">>]

LON_CANDS == <<"longitude", "lon", "lng", "x">>

LAT_CANDS == <<"latitude", "lat", "y">>

\* _find_index with the last column standing in for an alias that is not found.
FindIndexFallback(header, candidates) ==
  LET at(c) == {i \in 1..Len(header) : NormName(header[i]) = candidates[c]}
      found == {c \in 1..Len(candidates) : at(c) # {}}
  IN IF found = {} THEN Len(header) ELSE Max(at(Min(found)))

\* normalized = {col.strip().lower(): idx}: of two columns of one name the
\* later stays.  The index of the first alias found, 0 for None.
_find_index(header, candidates) ==
  LET at(c) == {i \in 1..Len(header) : NormName(header[i]) = candidates[c]}
      found == {c \in 1..Len(candidates) : at(c) # {}}
  IN IF found = {} THEN 0 ELSE Max(at(Min(found)))

\* self.indices[key]
IndexOf(header, key) == _find_index(header, COLUMN_CANDIDATES[key])

\* idx is not None and idx < len(row)
InRow(idx, row) == idx # 0 /\ idx <= Len(row)

\* _has_value of analysis
AnalysisHasValue(cell) ==
  StripS(cell) # "" /\ StripS(cell) \notin {"[]", "{}", "null", "None", "NULL", "none"}

\* _truthy of analysis
AnalysisTruthy(cell) == LowerS(StripS(cell)) \in {"true", "1", "yes", "ja", "y", "t"}

\* _to_int and _to_float of analysis on cells that hold whole numbers or none
_to_int(cell) ==
  IF StripS(cell) \in DOMAIN IntTable THEN [ok |-> TRUE, v |-> IntTable[StripS(cell)]]
  ELSE [ok |-> FALSE, v |-> 0]

\* _parse_date_any(raw).toordinal(), 0 when the text is no date: ISO, compact
\* and day month year are read.
DateOrdinal(raw) ==
  IF StripS(raw) \in {"2019-03-11", "20190311", "11 maart 2019"} THEN 737129
  ELSE IF StripS(raw) \in {"2020-01-01", "20200101", "1 januari 2020"} THEN 737425
  ELSE 0

\* _parse_sbi_cell
_parse_sbi_cell(cell) ==
  IF StripS(cell) = "[1]" THEN <<"1">>
  ELSE IF StripS(cell) = "1,2" THEN <<"1", "2">>
  ELSE IF StripS(cell) = "" THEN <<>>
  ELSE <<StripS(cell)>>

\* The bag of the items of a list.
RECURSIVE BagOfSeq(_)
BagOfSeq(s) == IF s = <<>> THEN EmptyBag ELSE SetToBag({Head(s)}) (+) BagOfSeq(Tail(s))

\* ProvinceLocator.resolve with the province polygons loaded: "" for None.
\* The point (5.1, 52.0) lies in the polygon of Utrecht, (0, 0) in none.
ProvinceOf(header, row) ==
  LET lon == _find_index(header, LON_CANDS)
      lat == _find_index(header, LAT_CANDS)
  IN IF lon = 0 \/ lat = 0 THEN ""
     ELSE IF ~(lon <= Len(row) /\ lat <= Len(row)) THEN ""
     ELSE IF row[lon] = "5.1" /\ row[lat] = "52.0" THEN "Utrecht"
     ELSE ""

\* StreamingAnalyzer.__init__
NewStats ==
  [total_rows |-> 0, rechtsvorm_counts |-> EmptyBag, contact_count |-> 0, econ_true |-> 0,
   media_counts |-> [f \in MEDIA_FIELDS |-> 0], phone_count |-> 0, fax_count |-> 0,
   gebruiks_counts |-> EmptyBag, surface_sum |-> 0, surface_n |-> 0,
   wmin_sum |-> 0, wmin_n |-> 0, wmax_sum |-> 0, wmax_n |-> 0, date_sum |-> 0, date_n |-> 0,
   kvk_counts |-> EmptyBag, province_counts |-> EmptyBag, sbi_counts |-> EmptyBag]

One(cond) == IF cond THEN 1 ELSE 0

\* The counters after consume(row).
Consumed(s, header, row) ==
  LET Idx(key) == IndexOf(header, key)
      Cell(key) == row[Idx(key)]
      Has(key) == InRow(Idx(key), row)
      rv == IF Has("rechtsvorm") /\ Cell("rechtsvorm") # "" /\ StripS(Cell("rechtsvorm")) # ""
              THEN StripS(Cell("rechtsvorm")) ELSE "UNKNOWN"
      gd_raw == LowerS(StripS(Cell("gebruiksdoel")))
      area == _to_int(Cell("oppervlakte"))
      wmin == _to_int(Cell("working_min"))
      wmax == _to_int(Cell("working_max"))
      wmax_v == IF wmax.v = 999999999 THEN 0 ELSE wmax.v
      dt == DateOrdinal(Cell("oprichtingsdatum"))
      kvk == StripS(Cell("kvk"))
      province == ProvinceOf(header, row)
  IN [total_rows |-> s.total_rows + 1,
      rechtsvorm_counts |-> s.rechtsvorm_counts (+) SetToBag({rv}),
      contact_count |->
        s.contact_count
          + One(Has("contactpersoon") /\ AnalysisHasValue(Cell("contactpersoon"))
                  /\ StripS(Cell("contactpersoon")) \notin {"[]", "{}"}),
      econ_true |->
        s.econ_true + One(Has("economischactief") /\ AnalysisTruthy(Cell("economischactief"))),
      media_counts |->
        [f \in MEDIA_FIELDS |->
           s.media_counts[f] + One(Has(f) /\ AnalysisHasValue(Cell(f)))],
      phone_count |-> s.phone_count + One(Has("phone") /\ AnalysisHasValue(Cell("phone"))),
      fax_count |-> s.fax_count + One(Has("fax") /\ AnalysisHasValue(Cell("fax"))),
      gebruiks_counts |->
        IF Has("gebruiksdoel")
          THEN s.gebruiks_counts
                 (+) SetToBag({IF gd_raw \in {"woonfunctie", "unknown"} THEN gd_raw ELSE "unknown"})
          ELSE s.gebruiks_counts,
      surface_sum |->
        s.surface_sum + (IF Has("oppervlakte") /\ area.ok /\ area.v > 0 THEN area.v ELSE 0),
      surface_n |-> s.surface_n + One(Has("oppervlakte") /\ area.ok /\ area.v > 0),
      wmin_sum |-> s.wmin_sum + (IF Has("working_min") /\ wmin.ok THEN wmin.v ELSE 0),
      wmin_n |-> s.wmin_n + One(Has("working_min") /\ wmin.ok),
      wmax_sum |-> s.wmax_sum + (IF Has("working_max") /\ wmax.ok THEN wmax_v ELSE 0),
      wmax_n |-> s.wmax_n + One(Has("working_max") /\ wmax.ok),
      date_sum |-> s.date_sum + (IF Has("oprichtingsdatum") THEN dt ELSE 0),
      date_n |-> s.date_n + One(Has("oprichtingsdatum") /\ dt # 0),
      kvk_counts |->
        IF Has("kvk") /\ kvk # "" THEN s.kvk_counts (+) SetToBag({kvk}) ELSE s.kvk_counts,
      province_counts |->
        IF province # "" THEN s.province_counts (+) SetToBag({province})
        ELSE s.province_counts,
      sbi_counts |->
        IF Has("allsbi") THEN s.sbi_counts (+) BagOfSeq(_parse_sbi_cell(Cell("allsbi")))
        ELSE s.sbi_counts]

\* ----------------------------------------------------------------- finalize
GEBRUIKSDOEL_BUCKETS ==
  <<"woonfunctie", "kantoorfunctie", "industriefunctie", "winkelfunctie",
    "bijeenkomstfunctie", "gezondheidszorgfunctie", "onderwijsfunctie",
    "overige gebruiksfunctie", "sportfunctie", "logiesfunctie", "ligplaats", "standplaats",
    "unknown", "celfunctie">>

\* f"gebruiksdoel_{bucket.replace(' ', '_')}"
GebruiksKey(bucket) ==
  "gebruiksdoel_"
    \o (IF bucket = "overige gebruiksfunctie" THEN "overige_gebruiksfunctie" ELSE bucket)

\* A float rounded to six decimals is held as the whole number of its millionths.
Millionths == 1000000

\* round(n / d) for whole n >= 0 and d > 0: to the nearest whole number, a tie
\* to the even one.
RoundDiv(n, d) ==
  LET q == n \div d
      r == n % d
  IN IF 2 * r < d THEN q
     ELSE IF 2 * r > d THEN q + 1
     ELSE IF q % 2 = 0 THEN q ELSE q + 1

\* Pct cutting the quotient off after the sixth decimal.
PctTruncated(total, count) ==
  IF total # 0 THEN (100 * Millionths * count) \div total ELSE 0

\* pct = lambda count: round(100.0 * count / total, 6) if total else 0.0
Pct(total, count) ==
  IF total # 0 THEN RoundDiv(100 * Millionths * count, total) ELSE 0

\* {key: {"abs": count, "pct": pct(count)} for key, count in counter.items()}
Breakdown(total, counter) ==
  [key \in BagToSet(counter) |-> [abs |-> counter[key], pct |-> Pct(total, counter[key])]]

\* round(sum / n, 6) if n else None (-1 stands for None)
Average(sum, n) == IF n # 0 THEN RoundDiv(Millionths * sum, n) ELSE -1

\* StreamingAnalyzer.finalize.  avg_oprichtingsdatum carries the ordinal; its
\* "value" is the ISO text of that date.
finalize(s) ==
  LET total == s.total_rows
      counts ==
        ("contactpersoon" :> s.contact_count) @@ ("economischactief_true" :> s.econ_true)
          @@ [f \in MEDIA_FIELDS |-> s.media_counts[f]]
          @@ ("phone" :> s.phone_count) @@ ("fax" :> s.fax_count)
          @@ [k \in {GebruiksKey(GEBRUIKSDOEL_BUCKETS[i]) : i \in 1..Len(GEBRUIKSDOEL_BUCKETS)} |->
                LET bucket == CHOOSE b \in {GEBRUIKSDOEL_BUCKETS[i] :
                                              i \in 1..Len(GEBRUIKSDOEL_BUCKETS)} :
                                GebruiksKey(b) = k
                IN CopiesIn(bucket, s.gebruiks_counts)]
      unique_kvk == Cardinality(BagToSet(s.kvk_counts))
      multi_kvk == Cardinality({v \in BagToSet(s.kvk_counts) : s.kvk_counts[v] > 1})
  IN [total_rows |-> total,
      metrics |-> [k \in DOMAIN counts |-> [abs |-> counts[k], pct |-> Pct(total, counts[k])]],
      averages |-> [oppervlakte_avg_m2 |-> Average(s.surface_sum, s.surface_n),
                    working_min_avg |-> Average(s.wmin_sum, s.wmin_n),
                    working_max_avg |-> Average(s.wmax_sum, s.wmax_n)],
      avg_oprichtingsdatum |->
        [ordinal |-> IF s.date_n # 0 THEN RoundDiv(s.date_sum, s.date_n) ELSE -1,
         count |-> s.date_n],
      multi_kvk |-> [unique |-> unique_kvk, multi |-> multi_kvk,
                     pct |-> IF unique_kvk # 0
                               THEN RoundDiv(100 * Millionths * multi_kvk, unique_kvk) ELSE 0],
      rechtsvorm |-> Breakdown(total, s.rechtsvorm_counts),
      province |-> Breakdown(total, s.province_counts),
      sbi |-> Breakdown(total, s.sbi_counts)]

\* The result before finalize has run.
NoResult == [total_rows |-> -1]

MaxAnalyzed == 3

\* perform_analysis: analyzer.consume(row) for the next row
AnalyzerConsume ==
  /\ anPc = "run"
  /\ anPos < Len(anRows)
  /\ anStats' = Consumed(anStats, anHeader, anRows[anPos + 1])
  /\ anPos' = anPos + 1
  /\ UNCHANGED <<anHeader, anRows, anPc, anResult>>
  /\ UNCHANGED <<saveVars, dupVars, cacheVars, filterVars, polyVars, requestVars, moreVars>>

\* The rows are exhausted: filtered = analyzer.finalize().
AnalyzerEnd ==
  /\ anPc = "run"
  /\ anPos = Len(anRows)
  /\ anResult' = finalize(anStats)
  /\ anPc' = "done"
  /\ UNCHANGED <<anHeader, anRows, anPos, anStats>>
  /\ UNCHANGED <<saveVars, dupVars, cacheVars, filterVars, polyVars, requestVars, moreVars>>

AnalyzerNext == AnalyzerConsume \/ AnalyzerEnd

\* -- inputs of the analyzer
AnalyzerHeaders ==
  {<<c>> : c \in {"rechtsvorm", "contactpersoon", "economischactief", "email", "website",
                  "phone", "Fax", "gebruiksdoel", "oppervlakte", "workingminimum",
                  "workingmaximum", "oprichtingsdatum", "kvk", "allsbi", "id"}}
    \cup {<<"longitude", "latitude">>, <<"rechtsvorm", "Rechtsvorm ">>, <<"kvk", "rechtsvorm">>}

AnalyzerCells(col) ==
  IF col \in {"rechtsvorm", "Rechtsvorm "} THEN {"NV ", " "}
  ELSE IF col \in {"contactpersoon", "email", "website", "phone", "Fax"} THEN {"x", "[]", "null"}
  ELSE IF col = "economischactief" THEN {"TRUE", "0"}
  ELSE IF col = "gebruiksdoel" THEN {"Woonfunctie", "foo", ""}
  ELSE IF col = "oppervlakte" THEN {"10", "0", "x"}
  ELSE IF col = "workingminimum" THEN {"5", "x"}
  ELSE IF col = "workingmaximum" THEN {"8", "999999999"}
  ELSE IF col = "oprichtingsdatum" THEN {"20200101", "2019-03-11", "x"}
  ELSE IF col = "kvk" THEN {"1", " 1", ""}
  ELSE IF col = "allsbi" THEN {"1,2", "[1]", ""}
  ELSE IF col = "longitude" THEN {"5.1", "0"}
  ELSE IF col = "latitude" THEN {"52.0", "0"}
  ELSE {"1"}

AnalyzerStreams(header) ==
  UNION {[1..n -> RowsOver(header, AnalyzerCells)] : n \in 0..MaxAnalyzed}

\* ---------------------------------------------------- _compare_distribution
\* A share is a float of percent, held as the whole number of its millionths; a
\* dict is the sequence of its items in insertion order.
MapKeys(m) == {m[i].value : i \in 1..Len(m)}

\* baseline_map.get(value, 0.0)
MapGet(m, value) ==
  IF value \in MapKeys(m) THEN m[CHOOSE i \in 1..Len(m) : m[i].value = value].pct ELSE 0

Abs(x) == IF x < 0 THEN 0 - x ELSE x

\* (pct_value / 100.0) * total if total else 0.0, in hundred-millionths
_expected_count(total, pct_value) == IF total # 0 THEN pct_value * total ELSE 0

CompareRow(value, filtered_abs, filtered_pct, baseline_pct, total, direction) ==
  [value |-> value, filtered_abs |-> filtered_abs, filtered_pct |-> filtered_pct,
   baseline_pct |-> baseline_pct, expected_abs |-> _expected_count(total, baseline_pct),
   diff_pct |-> filtered_pct - baseline_pct,
   abs_diff_pct |-> Abs(filtered_pct - baseline_pct), direction |-> direction]

\* for value, info in filtered_map.items(): one row each
LiveRows(filtered_map, baseline_map, total) ==
  [i \in 1..Len(filtered_map) |->
     LET e == filtered_map[i]
         diff == e.pct - MapGet(baseline_map, e.value)
     IN CompareRow(e.value, e.abs, e.pct, MapGet(baseline_map, e.value), total,
                   IF diff > 0 THEN "higher" ELSE IF diff < 0 THEN "lower" ELSE "same")]

\* AbsentRows without the test of the share.
RECURSIVE AbsentRowsAnyShare(_, _, _)
AbsentRowsAnyShare(seen, baseline_map, total) ==
  IF baseline_map = <<>> THEN <<>>
  ELSE LET e == Head(baseline_map)
           rest == AbsentRowsAnyShare(seen, Tail(baseline_map), total)
       IN IF e.value \in seen THEN rest
          ELSE <<CompareRow(e.value, 0, 0, e.pct, total, "lower")>> \o rest

\* for value, baseline_pct in baseline_map.items(): skip the values seen and the
\* shares <= 0, one row for each of the others
RECURSIVE AbsentRows(_, _, _)
AbsentRows(seen, baseline_map, total) ==
  IF baseline_map = <<>> THEN <<>>
  ELSE LET e == Head(baseline_map)
           rest == AbsentRows(seen, Tail(baseline_map), total)
       IN IF e.value \in seen THEN rest
          ELSE IF e.pct <= 0 THEN rest
          ELSE <<CompareRow(e.value, 0, 0, e.pct, total, "lower")>> \o rest

\* rows.sort(key=abs_diff_pct, reverse=True): stable, so rows of equal deviation
\* keep their order
RECURSIVE SortByDeviation(_)
SortByDeviation(rows) ==
  IF rows = <<>> THEN <<>>
  ELSE LET front == SortByDeviation(SubSeq(rows, 1, Len(rows) - 1))
           last == rows[Len(rows)]
           k == Cardinality({i \in 1..Len(front) : front[i].abs_diff_pct >= last.abs_diff_pct})
       IN SubSeq(front, 1, k) \o <<last>> \o SubSeq(front, k + 1, Len(front))

_compare_distribution(filtered_map, baseline_map, total_filtered, max_rows) ==
  LET rows == SortByDeviation(
                LiveRows(filtered_map, baseline_map, total_filtered)
                  \o AbsentRows(MapKeys(filtered_map), baseline_map, total_filtered))
  IN [rows |-> SubSeq(rows, 1, Min({max_rows, Len(rows)})),
      omitted |-> Max({0, Len(rows) - max_rows})]

\* The result before the call has returned.
NoComparison == [rows |-> <<>>, omitted |-> -1]

\* compare_with_baseline: one call of _compare_distribution
Compare ==
  /\ cmPc = "call"
  /\ cmResult' = _compare_distribution(cmFiltered, cmBaseline, cmTotal, cmCap)
  /\ cmPc' = "done"
  /\ UNCHANGED <<cmFiltered, cmBaseline, cmTotal, cmCap>>
  /\ UNCHANGED <<oldVars, baselineVars, consumerVars>>

CompareNext == Compare

\* -- inputs of the comparison
MaxLive == 2

MaxBase == 2

MaxCap == 2

CompareTotals == {0, 1, 2}

CompareValues == {"a", "b", "c", "d"}

\* The sequences of at most n items over distinct values.
DistinctItems(items, n) ==
  {m \in UNION {[1..k -> items] : k \in 0..n} :
     \A i, j \in 1..Len(m) : m[i].value = m[j].value => i = j}

\* The breakdowns finalize builds for a total: counts of at least one, their
\* shares computed from the total.
CompareFiltered(total) ==
  IF total = 0 THEN {<<>>}
  ELSE DistinctItems({[value |-> v, abs |-> a, pct |-> Pct(total, a)] :
                        v \in CompareValues, a \in 1..total}, MaxLive)

CompareShares == {0 - 50 * Millionths, 0, 100 * Millionths}

CompareBaselines ==
  DistinctItems({[value |-> v, pct |-> p] : v \in CompareValues, p \in CompareShares}, MaxBase)

\* ------------------------------------------------------------ _load_baseline
\* The analysis requests run on the threads of the server; each thread makes
\* calls of perform_analysis, one after the other, and nothing serialises the
\* calls of _load_baseline of different threads.  A step of a thread is the
\* test of _BASELINE_CACHE, the three exists() tests, the reading of the three
\* files, or the store to _BASELINE_CACHE with the return.  A BaselineData object
\* is held as the number it got when it was built; 0 stands for None.
REFERENCE_FILES == {"SUMMARY_FILE", "PROVINCE_FILE", "SBI_FILE"}

MaxLoads == 2

MaxFileChanges == 2

LoaderAt(pc, result) == [pc |-> pc, result |-> result]

\* perform_analysis on a thread that is free: the rows are consumed, finalize
\* has run, _load_baseline is entered.
BaselineCall(t) ==
  /\ blThread[t].pc \in {"returned", "raised"}
  /\ blCalls < MaxLoads
  /\ blCalls' = blCalls + 1
  /\ blThread' = [blThread EXCEPT ![t] = LoaderAt("start", 0)]
  /\ UNCHANGED <<blFiles, blCache, blReads, blObjects, blChanges>>
  /\ UNCHANGED <<oldVars, compareVars, consumerVars>>

\* if _BASELINE_CACHE is not None: return _BASELINE_CACHE
BaselineCheckCache(t) ==
  /\ blThread[t].pc = "start"
  /\ blThread' = [blThread EXCEPT ![t] =
                    IF blCache # 0 THEN LoaderAt("returned", blCache)
                    ELSE LoaderAt("exists", 0)]
  /\ UNCHANGED <<blFiles, blCache, blReads, blObjects, blChanges, blCalls>>
  /\ UNCHANGED <<oldVars, compareVars, consumerVars>>

\* The three exists() tests: FileNotFoundError when one of the files is missing.
BaselineExists(t) ==
  /\ blThread[t].pc = "exists"
  /\ blThread' = [blThread EXCEPT ![t] =
                    IF \A f \in REFERENCE_FILES : blFiles[f] THEN LoaderAt("read", 0)
                    ELSE LoaderAt("raised", 0)]
  /\ UNCHANGED <<blFiles, blCache, blReads, blObjects, blChanges, blCalls>>
  /\ UNCHANGED <<oldVars, compareVars, consumerVars>>

\* The three files are opened and read, SUMMARY_FILE first; open() raises
\* FileNotFoundError for a file removed since the tests.
BaselineRead(t) ==
  /\ blThread[t].pc = "read"
  /\ blReads' = IF blFiles["SUMMARY_FILE"] THEN blReads + 1 ELSE blReads
  /\ blThread' = [blThread EXCEPT ![t] =
                    IF \A f \in REFERENCE_FILES : blFiles[f] THEN LoaderAt("store", 0)
                    ELSE LoaderAt("raised", 0)]
  /\ UNCHANGED <<blFiles, blCache, blObjects, blChanges, blCalls>>
  /\ UNCHANGED <<oldVars, compareVars, consumerVars>>

\* _BASELINE_CACHE = BaselineData(...); return _BASELINE_CACHE
BaselineStore(t) ==
  /\ blThread[t].pc = "store"
  /\ blObjects' = blObjects + 1
  /\ blCache' = blObjects + 1
  /\ blThread' = [blThread EXCEPT ![t] = LoaderAt("returned", blObjects + 1)]
  /\ UNCHANGED <<blFiles, blReads, blChanges, blCalls>>
  /\ UNCHANGED <<oldVars, compareVars, consumerVars>>

\* A reference file is put in place or taken away.
BaselineFilesChange ==
  /\ blChanges < MaxFileChanges
  /\ \E t \in Threads : blThread[t].pc # "idle"
  /\ blChanges' = blChanges + 1
  /\ \E f \in REFERENCE_FILES : blFiles' = [blFiles EXCEPT ![f] = ~blFiles[f]]
  /\ UNCHANGED <<blCache, blReads, blObjects, blCalls, blThread>>
  /\ UNCHANGED <<oldVars, compareVars, consumerVars>>

BaselineNext ==
  \/ \E t \in Threads :
       \/ BaselineCall(t)
       \/ BaselineCheckCache(t)
       \/ BaselineExists(t)
       \/ BaselineRead(t)
       \/ BaselineStore(t)
  \/ BaselineFilesChange

\* ------------------------------------------------------- the four consumers
\* preview_count, stream_filtered_csv behind api_download, save_filtered_csv_multi
\* with one REST destination, and statistical_analysis, each run once on the
\* same source, selection and advanced options.  Each has its own handle on the
\* source and its own chain of generators, and they share no state, so they are
\* run one after the other in the order of CONSUMERS.
CONSUMERS == <<"preview_count", "stream_filtered_csv", "save_filtered_csv_multi",
               "statistical_analysis">>

MaxConsumed == 3

\* What _apply_duplicate_filter finds at the folder given: a folder that is
\* missing or cannot be read makes _load_existing_kvk_numbers raise ValueError.
FolderRaises(adv) == adv.filterDuplicates /\ adv.kind \in {"missing", "unreadable"}

\* _apply_filters raises ValueError when it is called.
ApplyRaises(adv, header) == DupCallRaises(adv, header) \/ FolderRaises(adv)

\* csv.writer(delimiter=CSV_DELIMITER, quoting=QUOTE_MINIMAL, lineterminator="\r\n")
\* on one row: the cells joined by the delimiter, a row of one empty cell written
\* as a pair of quotes.
RECURSIVE JoinCells(_)
JoinCells(row) ==
  IF row = <<>> THEN ""
  ELSE IF Len(row) = 1 THEN row[1]
  ELSE row[1] \o ";" \o JoinCells(Tail(row))

writer_line(row) == (IF row = <<"">> THEN "\"\"" ELSE JoinCells(row)) \o "\r\n"

\* The mark "\ufeff" that opens the download and every chunk file.
BOM == "\\ufeff"

\* The destination of the save: REST, one directory.
RestDestination(chunk) ==
  [directory |-> "out1", max_rows_per_file |-> IntVal(chunk), rows_requested |-> RVal]

\* A consumer before its request.
NewConsumer(pc) ==
  [pc |-> pc, pos |-> 0, seen |-> {}, status |-> 0, chunks |-> <<>>, count |-> 0,
   entry |-> NewEntry(RestDestination(1)), disk |-> EmptyDisk, fh |-> <<>>,
   stats |-> NewStats, result |-> -1]

ConsumerDone(c) == cnState[c].pc \in {"done", "raised", "idle"}

ConsumerTurn(c) == \A b \in 1..(c - 1) : ConsumerDone(b)

\* api_download: the call of stream_filtered_csv builds the generator and runs
\* nothing of it, so neither except clause is reached; the Response is returned
\* with the status 200.
DownloadRespond ==
  /\ ConsumerTurn(2)
  /\ cnState[2].pc = "request"
  /\ cnState' = [cnState EXCEPT ![2].pc = "bom", ![2].status = 200]
  /\ UNCHANGED <<cnHeader, cnRows, cnSelected, cnAdv, cnChunk>>
  /\ UNCHANGED <<oldVars, compareVars, baselineVars>>

\* The first pull of the server: _stream_rows opens the source, the mark is
\* yielded.
DownloadBom ==
  /\ cnState[2].pc = "bom"
  /\ cnState' = [cnState EXCEPT ![2].pc = "header", ![2].chunks = Append(@, BOM)]
  /\ UNCHANGED <<cnHeader, cnRows, cnSelected, cnAdv, cnChunk>>
  /\ UNCHANGED <<oldVars, compareVars, baselineVars>>

\* The second pull: the header line is yielded.
DownloadHeader ==
  /\ cnState[2].pc = "header"
  /\ cnState' = [cnState EXCEPT ![2].pc = "call", ![2].chunks = Append(@, writer_line(cnHeader))]
  /\ UNCHANGED <<cnHeader, cnRows, cnSelected, cnAdv, cnChunk>>
  /\ UNCHANGED <<oldVars, compareVars, baselineVars>>

\* _apply_filters is called: by preview_count, save_filtered_csv_multi and
\* statistical_analysis at their start, where the route answers a ValueError
\* with the status 400; by stream_filtered_csv at the third pull of the server,
\* where the error leaves the generator after the response has begun.  The save
\* then prepares its one destination.
ConsumerApply(c) ==
  /\ ConsumerTurn(c)
  /\ cnState[c].pc = "call"
  /\ cnState' = [cnState EXCEPT ![c] =
       IF ApplyRaises(cnAdv, cnHeader)
         THEN [@ EXCEPT !.pc = "raised", !.status = IF c = 2 THEN @ ELSE 400]
         ELSE [@ EXCEPT !.pc = "run", !.entry = NewEntry(RestDestination(cnChunk))]]
  /\ UNCHANGED <<cnHeader, cnRows, cnSelected, cnAdv, cnChunk>>
  /\ UNCHANGED <<oldVars, compareVars, baselineVars>>

\* Delivered with a download that passes over the rows of no cell.
DeliveredSkippingEmptyRows(c, s, row) ==
  IF c = 1 THEN [s EXCEPT !.count = @ + 1]
  ELSE IF c = 2 THEN (IF row = <<>> THEN s ELSE [s EXCEPT !.chunks = Append(@, writer_line(row))])
  ELSE IF c = 3
    THEN LET prep == <<s.entry>>
             r == EnsureWriter(prep[DestinationIndex(prep, 1)], s.disk, s.fh)
         IN [s EXCEPT !.entry = CountRow(r.entry),
                      !.disk = [r.disk EXCEPT ![r.fh[r.entry.handle].path] =
                                                Append(@, writer_line(row))],
                      !.fh = r.fh,
                      !.count = @ + 1]
  ELSE [s EXCEPT !.stats = Consumed(@, cnHeader, row)]

\* What a consumer does with a row its pipeline yields.
\*   preview_count: sum(1 for _ in filtered)
\*   stream_filtered_csv: yield writer_line(row)
\*   save_filtered_csv_multi: the row goes to the entry DestinationIndex names
\*   statistical_analysis: analyzer.consume(row)
Delivered(c, s, row) ==
  IF c = 1 THEN [s EXCEPT !.count = @ + 1]
  ELSE IF c = 2 THEN [s EXCEPT !.chunks = Append(@, writer_line(row))]
  ELSE IF c = 3
    THEN LET prep == <<s.entry>>
             r == EnsureWriter(prep[DestinationIndex(prep, 1)], s.disk, s.fh)
         IN [s EXCEPT !.entry = CountRow(r.entry),
                      !.disk = [r.disk EXCEPT ![r.fh[r.entry.handle].path] =
                                                Append(@, writer_line(row))],
                      !.fh = r.fh,
                      !.count = @ + 1]
  ELSE [s EXCEPT !.stats = Consumed(@, cnHeader, row)]

\* The consumer pulls: the next source row goes through the chain and the
\* duplicate stage.
ConsumerPull(c) ==
  /\ cnState[c].pc = "run"
  /\ ~ChainBlocked(cnHeader, cnSelected)
  /\ cnState[c].pos < Len(cnRows)
  /\ LET s == cnState[c]
         row == cnRows[s.pos + 1]
         r == ChainRow(cnHeader, cnSelected, row, 1)
         kvk_val == KvkVal(TextRow(row), _find_kvk_index(TextRow(cnHeader)))
         dup == cnAdv.filterDuplicates
         yields == r = "keep" /\ (dup => DupYields(kvk_val, cnAdv.existing, s.seen))
         moved == [s EXCEPT !.pos = @ + 1,
                            !.seen = IF r = "keep" /\ dup
                                       THEN DupSeen(kvk_val, cnAdv.existing, s.seen) ELSE @]
     IN cnState' = [cnState EXCEPT ![c] =
          IF r = "raise" THEN [moved EXCEPT !.pc = "raised", !.status = IF c = 2 THEN @ ELSE 400]
          ELSE IF yields THEN Delivered(c, moved, row)
          ELSE moved]
  /\ UNCHANGED <<cnHeader, cnRows, cnSelected, cnAdv, cnChunk>>
  /\ UNCHANGED <<oldVars, compareVars, baselineVars>>

\* What a consumer returns when its pipeline is exhausted.
\*   save_filtered_csv_multi: the header-only file when no row was written, the
\*     finally block, total_rows_written
\*   statistical_analysis: finalize, and total_rows of the comparison
Finished(c, s) ==
  IF c = 1 THEN [s EXCEPT !.pc = "done", !.status = 200, !.result = s.count]
  ELSE IF c = 2 THEN [s EXCEPT !.pc = "done"]
  ELSE IF c = 3
    THEN LET r == IF s.count = 0 /\ s.entry.files = <<>>
                    THEN EnsureWriter(s.entry, s.disk, s.fh)
                    ELSE [entry |-> s.entry, disk |-> s.disk, fh |-> s.fh]
             closed == FinallyClose(<<r.entry>>, r.fh, 0)
         IN [s EXCEPT !.pc = "done", !.status = 200, !.result = s.count,
                      !.entry = closed.prepared[1], !.disk = r.disk, !.fh = closed.fh]
  ELSE [s EXCEPT !.pc = "done", !.status = 200, !.result = finalize(s.stats).total_rows]

ConsumerEnd(c) ==
  /\ cnState[c].pc = "run"
  /\ ChainBlocked(cnHeader, cnSelected) \/ cnState[c].pos = Len(cnRows)
  /\ cnState' = [cnState EXCEPT ![c] = Finished(c, @)]
  /\ UNCHANGED <<cnHeader, cnRows, cnSelected, cnAdv, cnChunk>>
  /\ UNCHANGED <<oldVars, compareVars, baselineVars>>

ConsumerNext ==
  \/ DownloadRespond
  \/ DownloadBom
  \/ DownloadHeader
  \/ \E c \in 1..Len(CONSUMERS) :
       \/ ConsumerApply(c)
       \/ ConsumerPull(c)
       \/ ConsumerEnd(c)

\* -- inputs of the consumers
ConsumerHeaders == {<<"kvk", "email">>, <<"email", "economischactief">>}

ConsumerCells(col) == IF col = "kvk" THEN {"1"} ELSE PipeCells(col)

ConsumerStreams(header) ==
  UNION {[1..n -> RowsOver(header, ConsumerCells)] : n \in 0..MaxConsumed}

ConsumerSelections ==
  {<<>>, <<PipeItem["media"]>>, <<PipeItem["economischactief"], PipeItem["media"]>>}

\* The duplicate stage off; on with no folder given; on with a folder that is
\* missing, unreadable, or holds the identifiers of `existing`.
ConsumerAdvanced ==
  {[filterDuplicates |-> FALSE, folder |-> "", kind |-> "none", existing |-> {}],
   [filterDuplicates |-> TRUE, folder |-> "", kind |-> "none", existing |-> {}],
   [filterDuplicates |-> TRUE, folder |-> "dups", kind |-> "missing", existing |-> {}],
   [filterDuplicates |-> TRUE, folder |-> "dups", kind |-> "unreadable", existing |-> {}]}
    \cup {[filterDuplicates |-> TRUE, folder |-> "dups", kind |-> "ok", existing |-> e] :
            e \in {{}, {<<"1">>}}}

\* max_rows_per_file of the destination of the save.
ConsumerChunks == {1, 2}

StartedConsumers ==
  [c \in 1..Len(CONSUMERS) |-> NewConsumer(IF c = 2 THEN "request" ELSE "call")]

\* ============================================================ specifications
\* Each specification starts one machine on its inputs and leaves the others idle.
SaveInit ==
  /\ svPc = "call"
  /\ svExc = "none"
  /\ svErr = ""
  /\ nDests \in 0..MaxDests
  /\ destinations = <<>>
  /\ prepared = <<>>
  /\ rest_index = 0
  /\ srcOpen = FALSE
  /\ srcRead = 0
  /\ srcYielded = 0
  /\ dirsMade = {}
  /\ disk = EmptyDisk
  /\ fh = <<>>
  /\ written = <<>>
  /\ total_rows_written = 0
  /\ dpPc = "idle"
  /\ dpFolder = ""
  /\ dpHeader = <<>>
  /\ dpRows = <<>>
  /\ dpExisting = {}
  /\ dpPos = 0
  /\ dpSeen = {}
  /\ dpOut = <<>>
  /\ folder = [n \in FileNames |-> NoFile]
  /\ cache = NoCache
  /\ ldPc = "idle"
  /\ ldResult = {}
  /\ ldReread = FALSE
  /\ ldCalls = 0
  /\ chgCount = 0
  /\ allAltered = TRUE
  /\ builtAt = 0
  /\ sigReused = FALSE
  /\ flHeader = <<>>
  /\ flRows = <<>>
  /\ flSelected = <<>>
  /\ flDup = NoAdvanced
  /\ flExisting = {}
  /\ flPos = 0
  /\ flSeen = {}
  /\ flOut = <<>>
  /\ flPc = "idle"
  /\ plReady = FALSE
  /\ plProvGeoms = <<>>
  /\ plProvNames = <<>>
  /\ plCustGeoms = <<>>
  /\ plCustNames = <<>>
  /\ plThread = [t \in Threads |-> ThreadAt("idle", 0)]
  /\ rqFolder = [n \in FileNames |-> NoFile]
  /\ rqCache = NoCache
  /\ rqHeader = <<>>
  /\ rqRows = <<>>
  /\ rqReq = [r \in Requests |-> IdleRequest]
  /\ anHeader = <<>>
  /\ anRows = <<>>
  /\ anPos = 0
  /\ anStats = NewStats
  /\ anResult = NoResult
  /\ anPc = "idle"
  /\ cmTotal = 0
  /\ cmFiltered = <<>>
  /\ cmBaseline = <<>>
  /\ cmCap = 0
  /\ cmResult = NoComparison
  /\ cmPc = "idle"
  /\ blFiles = [f \in REFERENCE_FILES |-> FALSE]
  /\ blCache = 0
  /\ blReads = 0
  /\ blObjects = 0
  /\ blChanges = 0
  /\ blCalls = 0
  /\ blThread = [t \in Threads |-> LoaderAt("idle", 0)]
  /\ cnHeader = <<>>
  /\ cnRows = <<>>
  /\ cnSelected = <<>>
  /\ cnAdv = NoAdvanced
  /\ cnChunk = 1
  /\ cnState = [c \in 1..Len(CONSUMERS) |-> NewConsumer("idle")]

DupInit ==
  /\ svPc = "idle"
  /\ svExc = "none"
  /\ svErr = ""
  /\ nDests = 0
  /\ destinations = <<>>
  /\ prepared = <<>>
  /\ rest_index = 0
  /\ srcOpen = FALSE
  /\ srcRead = 0
  /\ srcYielded = 0
  /\ dirsMade = {}
  /\ disk = EmptyDisk
  /\ fh = <<>>
  /\ written = <<>>
  /\ total_rows_written = 0
  /\ dpPc = "call"
  /\ dpFolder \in {"", "dups"}
  /\ dpHeader \in Headers
  /\ dpRows \in StreamsOf(dpHeader)
  /\ dpExisting \in SUBSET Ids
  /\ dpPos = 0
  /\ dpSeen = {}
  /\ dpOut = <<>>
  /\ folder = [n \in FileNames |-> NoFile]
  /\ cache = NoCache
  /\ ldPc = "idle"
  /\ ldResult = {}
  /\ ldReread = FALSE
  /\ ldCalls = 0
  /\ chgCount = 0
  /\ allAltered = TRUE
  /\ builtAt = 0
  /\ sigReused = FALSE
  /\ flHeader = <<>>
  /\ flRows = <<>>
  /\ flSelected = <<>>
  /\ flDup = NoAdvanced
  /\ flExisting = {}
  /\ flPos = 0
  /\ flSeen = {}
  /\ flOut = <<>>
  /\ flPc = "idle"
  /\ plReady = FALSE
  /\ plProvGeoms = <<>>
  /\ plProvNames = <<>>
  /\ plCustGeoms = <<>>
  /\ plCustNames = <<>>
  /\ plThread = [t \in Threads |-> ThreadAt("idle", 0)]
  /\ rqFolder = [n \in FileNames |-> NoFile]
  /\ rqCache = NoCache
  /\ rqHeader = <<>>
  /\ rqRows = <<>>
  /\ rqReq = [r \in Requests |-> IdleRequest]
  /\ anHeader = <<>>
  /\ anRows = <<>>
  /\ anPos = 0
  /\ anStats = NewStats
  /\ anResult = NoResult
  /\ anPc = "idle"
  /\ cmTotal = 0
  /\ cmFiltered = <<>>
  /\ cmBaseline = <<>>
  /\ cmCap = 0
  /\ cmResult = NoComparison
  /\ cmPc = "idle"
  /\ blFiles = [f \in REFERENCE_FILES |-> FALSE]
  /\ blCache = 0
  /\ blReads = 0
  /\ blObjects = 0
  /\ blChanges = 0
  /\ blCalls = 0
  /\ blThread = [t \in Threads |-> LoaderAt("idle", 0)]
  /\ cnHeader = <<>>
  /\ cnRows = <<>>
  /\ cnSelected = <<>>
  /\ cnAdv = NoAdvanced
  /\ cnChunk = 1
  /\ cnState = [c \in 1..Len(CONSUMERS) |-> NewConsumer("idle")]

CacheInit ==
  /\ svPc = "idle"
  /\ svExc = "none"
  /\ svErr = ""
  /\ nDests = 0
  /\ destinations = <<>>
  /\ prepared = <<>>
  /\ rest_index = 0
  /\ srcOpen = FALSE
  /\ srcRead = 0
  /\ srcYielded = 0
  /\ dirsMade = {}
  /\ disk = EmptyDisk
  /\ fh = <<>>
  /\ written = <<>>
  /\ total_rows_written = 0
  /\ dpPc = "idle"
  /\ dpFolder = ""
  /\ dpHeader = <<>>
  /\ dpRows = <<>>
  /\ dpExisting = {}
  /\ dpPos = 0
  /\ dpSeen = {}
  /\ dpOut = <<>>
  /\ folder \in [FileNames -> Files \cup {NoFile}]
  /\ cache = NoCache
  /\ ldPc = "idle"
  /\ ldResult = {}
  /\ ldReread = FALSE
  /\ ldCalls = 0
  /\ chgCount = 0
  /\ allAltered = TRUE
  /\ builtAt = 0
  /\ sigReused = FALSE
  /\ flHeader = <<>>
  /\ flRows = <<>>
  /\ flSelected = <<>>
  /\ flDup = NoAdvanced
  /\ flExisting = {}
  /\ flPos = 0
  /\ flSeen = {}
  /\ flOut = <<>>
  /\ flPc = "idle"
  /\ plReady = FALSE
  /\ plProvGeoms = <<>>
  /\ plProvNames = <<>>
  /\ plCustGeoms = <<>>
  /\ plCustNames = <<>>
  /\ plThread = [t \in Threads |-> ThreadAt("idle", 0)]
  /\ rqFolder = [n \in FileNames |-> NoFile]
  /\ rqCache = NoCache
  /\ rqHeader = <<>>
  /\ rqRows = <<>>
  /\ rqReq = [r \in Requests |-> IdleRequest]
  /\ anHeader = <<>>
  /\ anRows = <<>>
  /\ anPos = 0
  /\ anStats = NewStats
  /\ anResult = NoResult
  /\ anPc = "idle"
  /\ cmTotal = 0
  /\ cmFiltered = <<>>
  /\ cmBaseline = <<>>
  /\ cmCap = 0
  /\ cmResult = NoComparison
  /\ cmPc = "idle"
  /\ blFiles = [f \in REFERENCE_FILES |-> FALSE]
  /\ blCache = 0
  /\ blReads = 0
  /\ blObjects = 0
  /\ blChanges = 0
  /\ blCalls = 0
  /\ blThread = [t \in Threads |-> LoaderAt("idle", 0)]
  /\ cnHeader = <<>>
  /\ cnRows = <<>>
  /\ cnSelected = <<>>
  /\ cnAdv = NoAdvanced
  /\ cnChunk = 1
  /\ cnState = [c \in 1..Len(CONSUMERS) |-> NewConsumer("idle")]

PipeInit ==
  /\ svPc = "idle"
  /\ svExc = "none"
  /\ svErr = ""
  /\ nDests = 0
  /\ destinations = <<>>
  /\ prepared = <<>>
  /\ rest_index = 0
  /\ srcOpen = FALSE
  /\ srcRead = 0
  /\ srcYielded = 0
  /\ dirsMade = {}
  /\ disk = EmptyDisk
  /\ fh = <<>>
  /\ written = <<>>
  /\ total_rows_written = 0
  /\ dpPc = "idle"
  /\ dpFolder = ""
  /\ dpHeader = <<>>
  /\ dpRows = <<>>
  /\ dpExisting = {}
  /\ dpPos = 0
  /\ dpSeen = {}
  /\ dpOut = <<>>
  /\ folder = [n \in FileNames |-> NoFile]
  /\ cache = NoCache
  /\ ldPc = "idle"
  /\ ldResult = {}
  /\ ldReread = FALSE
  /\ ldCalls = 0
  /\ chgCount = 0
  /\ allAltered = TRUE
  /\ builtAt = 0
  /\ sigReused = FALSE
  /\ flHeader \in PipeHeaders
  /\ flRows \in PipeStreams(flHeader)
  /\ flSelected \in PipeSelections
  /\ flDup \in PipeAdvanced
  /\ flExisting \in {{}, {<<"1">>}}
  /\ flPos = 0
  /\ flSeen = {}
  /\ flOut = <<>>
  /\ flPc = "call"
  /\ plReady = FALSE
  /\ plProvGeoms = <<>>
  /\ plProvNames = <<>>
  /\ plCustGeoms = <<>>
  /\ plCustNames = <<>>
  /\ plThread = [t \in Threads |-> ThreadAt("idle", 0)]
  /\ rqFolder = [n \in FileNames |-> NoFile]
  /\ rqCache = NoCache
  /\ rqHeader = <<>>
  /\ rqRows = <<>>
  /\ rqReq = [r \in Requests |-> IdleRequest]
  /\ anHeader = <<>>
  /\ anRows = <<>>
  /\ anPos = 0
  /\ anStats = NewStats
  /\ anResult = NoResult
  /\ anPc = "idle"
  /\ cmTotal = 0
  /\ cmFiltered = <<>>
  /\ cmBaseline = <<>>
  /\ cmCap = 0
  /\ cmResult = NoComparison
  /\ cmPc = "idle"
  /\ blFiles = [f \in REFERENCE_FILES |-> FALSE]
  /\ blCache = 0
  /\ blReads = 0
  /\ blObjects = 0
  /\ blChanges = 0
  /\ blCalls = 0
  /\ blThread = [t \in Threads |-> LoaderAt("idle", 0)]
  /\ cnHeader = <<>>
  /\ cnRows = <<>>
  /\ cnSelected = <<>>
  /\ cnAdv = NoAdvanced
  /\ cnChunk = 1
  /\ cnState = [c \in 1..Len(CONSUMERS) |-> NewConsumer("idle")]

SingleInit ==
  /\ svPc = "idle"
  /\ svExc = "none"
  /\ svErr = ""
  /\ nDests = 0
  /\ destinations = <<>>
  /\ prepared = <<>>
  /\ rest_index = 0
  /\ srcOpen = FALSE
  /\ srcRead = 0
  /\ srcYielded = 0
  /\ dirsMade = {}
  /\ disk = EmptyDisk
  /\ fh = <<>>
  /\ written = <<>>
  /\ total_rows_written = 0
  /\ dpPc = "idle"
  /\ dpFolder = ""
  /\ dpHeader = <<>>
  /\ dpRows = <<>>
  /\ dpExisting = {}
  /\ dpPos = 0
  /\ dpSeen = {}
  /\ dpOut = <<>>
  /\ folder = [n \in FileNames |-> NoFile]
  /\ cache = NoCache
  /\ ldPc = "idle"
  /\ ldResult = {}
  /\ ldReread = FALSE
  /\ ldCalls = 0
  /\ chgCount = 0
  /\ allAltered = TRUE
  /\ builtAt = 0
  /\ sigReused = FALSE
  /\ flHeader \in SingleHeaders
  /\ flRows \in SingleStreams(flHeader)
  /\ flSelected \in SingleItems(flHeader)
  /\ flDup = NoAdvanced
  /\ flExisting = {}
  /\ flPos = 0
  /\ flSeen = {}
  /\ flOut = <<>>
  /\ flPc = "call"
  /\ plReady = FALSE
  /\ plProvGeoms = <<>>
  /\ plProvNames = <<>>
  /\ plCustGeoms = <<>>
  /\ plCustNames = <<>>
  /\ plThread = [t \in Threads |-> ThreadAt("idle", 0)]
  /\ rqFolder = [n \in FileNames |-> NoFile]
  /\ rqCache = NoCache
  /\ rqHeader = <<>>
  /\ rqRows = <<>>
  /\ rqReq = [r \in Requests |-> IdleRequest]
  /\ anHeader = <<>>
  /\ anRows = <<>>
  /\ anPos = 0
  /\ anStats = NewStats
  /\ anResult = NoResult
  /\ anPc = "idle"
  /\ cmTotal = 0
  /\ cmFiltered = <<>>
  /\ cmBaseline = <<>>
  /\ cmCap = 0
  /\ cmResult = NoComparison
  /\ cmPc = "idle"
  /\ blFiles = [f \in REFERENCE_FILES |-> FALSE]
  /\ blCache = 0
  /\ blReads = 0
  /\ blObjects = 0
  /\ blChanges = 0
  /\ blCalls = 0
  /\ blThread = [t \in Threads |-> LoaderAt("idle", 0)]
  /\ cnHeader = <<>>
  /\ cnRows = <<>>
  /\ cnSelected = <<>>
  /\ cnAdv = NoAdvanced
  /\ cnChunk = 1
  /\ cnState = [c \in 1..Len(CONSUMERS) |-> NewConsumer("idle")]

PolyInit ==
  /\ svPc = "idle"
  /\ svExc = "none"
  /\ svErr = ""
  /\ nDests = 0
  /\ destinations = <<>>
  /\ prepared = <<>>
  /\ rest_index = 0
  /\ srcOpen = FALSE
  /\ srcRead = 0
  /\ srcYielded = 0
  /\ dirsMade = {}
  /\ disk = EmptyDisk
  /\ fh = <<>>
  /\ written = <<>>
  /\ total_rows_written = 0
  /\ dpPc = "idle"
  /\ dpFolder = ""
  /\ dpHeader = <<>>
  /\ dpRows = <<>>
  /\ dpExisting = {}
  /\ dpPos = 0
  /\ dpSeen = {}
  /\ dpOut = <<>>
  /\ folder = [n \in FileNames |-> NoFile]
  /\ cache = NoCache
  /\ ldPc = "idle"
  /\ ldResult = {}
  /\ ldReread = FALSE
  /\ ldCalls = 0
  /\ chgCount = 0
  /\ allAltered = TRUE
  /\ builtAt = 0
  /\ sigReused = FALSE
  /\ flHeader = <<>>
  /\ flRows = <<>>
  /\ flSelected = <<>>
  /\ flDup = NoAdvanced
  /\ flExisting = {}
  /\ flPos = 0
  /\ flSeen = {}
  /\ flOut = <<>>
  /\ flPc = "idle"
  /\ plReady = FALSE
  /\ plProvGeoms = <<>>
  /\ plProvNames = <<>>
  /\ plCustGeoms = <<>>
  /\ plCustNames = <<>>
  /\ plThread = [t \in Threads |-> ThreadAt("start", 0)]
  /\ rqFolder = [n \in FileNames |-> NoFile]
  /\ rqCache = NoCache
  /\ rqHeader = <<>>
  /\ rqRows = <<>>
  /\ rqReq = [r \in Requests |-> IdleRequest]
  /\ anHeader = <<>>
  /\ anRows = <<>>
  /\ anPos = 0
  /\ anStats = NewStats
  /\ anResult = NoResult
  /\ anPc = "idle"
  /\ cmTotal = 0
  /\ cmFiltered = <<>>
  /\ cmBaseline = <<>>
  /\ cmCap = 0
  /\ cmResult = NoComparison
  /\ cmPc = "idle"
  /\ blFiles = [f \in REFERENCE_FILES |-> FALSE]
  /\ blCache = 0
  /\ blReads = 0
  /\ blObjects = 0
  /\ blChanges = 0
  /\ blCalls = 0
  /\ blThread = [t \in Threads |-> LoaderAt("idle", 0)]
  /\ cnHeader = <<>>
  /\ cnRows = <<>>
  /\ cnSelected = <<>>
  /\ cnAdv = NoAdvanced
  /\ cnChunk = 1
  /\ cnState = [c \in 1..Len(CONSUMERS) |-> NewConsumer("idle")]

RequestInit ==
  /\ svPc = "idle"
  /\ svExc = "none"
  /\ svErr = ""
  /\ nDests = 0
  /\ destinations = <<>>
  /\ prepared = <<>>
  /\ rest_index = 0
  /\ srcOpen = FALSE
  /\ srcRead = 0
  /\ srcYielded = 0
  /\ dirsMade = {}
  /\ disk = EmptyDisk
  /\ fh = <<>>
  /\ written = <<>>
  /\ total_rows_written = 0
  /\ dpPc = "idle"
  /\ dpFolder = ""
  /\ dpHeader = <<>>
  /\ dpRows = <<>>
  /\ dpExisting = {}
  /\ dpPos = 0
  /\ dpSeen = {}
  /\ dpOut = <<>>
  /\ folder = [n \in FileNames |-> NoFile]
  /\ cache = NoCache
  /\ ldPc = "idle"
  /\ ldResult = {}
  /\ ldReread = FALSE
  /\ ldCalls = 0
  /\ chgCount = 0
  /\ allAltered = TRUE
  /\ builtAt = 0
  /\ sigReused = FALSE
  /\ flHeader = <<>>
  /\ flRows = <<>>
  /\ flSelected = <<>>
  /\ flDup = NoAdvanced
  /\ flExisting = {}
  /\ flPos = 0
  /\ flSeen = {}
  /\ flOut = <<>>
  /\ flPc = "idle"
  /\ plReady = FALSE
  /\ plProvGeoms = <<>>
  /\ plProvNames = <<>>
  /\ plCustGeoms = <<>>
  /\ plCustNames = <<>>
  /\ plThread = [t \in Threads |-> ThreadAt("idle", 0)]
  /\ rqFolder \in RequestFolders
  /\ rqCache = NoCache
  /\ rqHeader \in Headers
  /\ rqRows \in RequestStreams(rqHeader)
  /\ rqReq = [r \in Requests |-> [IdleRequest EXCEPT !.pc = "start"]]
  /\ anHeader = <<>>
  /\ anRows = <<>>
  /\ anPos = 0
  /\ anStats = NewStats
  /\ anResult = NoResult
  /\ anPc = "idle"
  /\ cmTotal = 0
  /\ cmFiltered = <<>>
  /\ cmBaseline = <<>>
  /\ cmCap = 0
  /\ cmResult = NoComparison
  /\ cmPc = "idle"
  /\ blFiles = [f \in REFERENCE_FILES |-> FALSE]
  /\ blCache = 0
  /\ blReads = 0
  /\ blObjects = 0
  /\ blChanges = 0
  /\ blCalls = 0
  /\ blThread = [t \in Threads |-> LoaderAt("idle", 0)]
  /\ cnHeader = <<>>
  /\ cnRows = <<>>
  /\ cnSelected = <<>>
  /\ cnAdv = NoAdvanced
  /\ cnChunk = 1
  /\ cnState = [c \in 1..Len(CONSUMERS) |-> NewConsumer("idle")]

AnalyzerInit ==
  /\ svPc = "idle"
  /\ svExc = "none"
  /\ svErr = ""
  /\ nDests = 0
  /\ destinations = <<>>
  /\ prepared = <<>>
  /\ rest_index = 0
  /\ srcOpen = FALSE
  /\ srcRead = 0
  /\ srcYielded = 0
  /\ dirsMade = {}
  /\ disk = EmptyDisk
  /\ fh = <<>>
  /\ written = <<>>
  /\ total_rows_written = 0
  /\ dpPc = "idle"
  /\ dpFolder = ""
  /\ dpHeader = <<>>
  /\ dpRows = <<>>
  /\ dpExisting = {}
  /\ dpPos = 0
  /\ dpSeen = {}
  /\ dpOut = <<>>
  /\ folder = [n \in FileNames |-> NoFile]
  /\ cache = NoCache
  /\ ldPc = "idle"
  /\ ldResult = {}
  /\ ldReread = FALSE
  /\ ldCalls = 0
  /\ chgCount = 0
  /\ allAltered = TRUE
  /\ builtAt = 0
  /\ sigReused = FALSE
  /\ flHeader = <<>>
  /\ flRows = <<>>
  /\ flSelected = <<>>
  /\ flDup = NoAdvanced
  /\ flExisting = {}
  /\ flPos = 0
  /\ flSeen = {}
  /\ flOut = <<>>
  /\ flPc = "idle"
  /\ plReady = FALSE
  /\ plProvGeoms = <<>>
  /\ plProvNames = <<>>
  /\ plCustGeoms = <<>>
  /\ plCustNames = <<>>
  /\ plThread = [t \in Threads |-> ThreadAt("idle", 0)]
  /\ rqFolder = [n \in FileNames |-> NoFile]
  /\ rqCache = NoCache
  /\ rqHeader = <<>>
  /\ rqRows = <<>>
  /\ rqReq = [r \in Requests |-> IdleRequest]
  /\ anHeader \in AnalyzerHeaders
  /\ anRows \in AnalyzerStreams(anHeader)
  /\ anPos = 0
  /\ anStats = NewStats
  /\ anResult = NoResult
  /\ anPc = "run"
  /\ cmTotal = 0
  /\ cmFiltered = <<>>
  /\ cmBaseline = <<>>
  /\ cmCap = 0
  /\ cmResult = NoComparison
  /\ cmPc = "idle"
  /\ blFiles = [f \in REFERENCE_FILES |-> FALSE]
  /\ blCache = 0
  /\ blReads = 0
  /\ blObjects = 0
  /\ blChanges = 0
  /\ blCalls = 0
  /\ blThread = [t \in Threads |-> LoaderAt("idle", 0)]
  /\ cnHeader = <<>>
  /\ cnRows = <<>>
  /\ cnSelected = <<>>
  /\ cnAdv = NoAdvanced
  /\ cnChunk = 1
  /\ cnState = [c \in 1..Len(CONSUMERS) |-> NewConsumer("idle")]

SbiInit ==
  /\ svPc = "idle"
  /\ svExc = "none"
  /\ svErr = ""
  /\ nDests = 0
  /\ destinations = <<>>
  /\ prepared = <<>>
  /\ rest_index = 0
  /\ srcOpen = FALSE
  /\ srcRead = 0
  /\ srcYielded = 0
  /\ dirsMade = {}
  /\ disk = EmptyDisk
  /\ fh = <<>>
  /\ written = <<>>
  /\ total_rows_written = 0
  /\ dpPc = "idle"
  /\ dpFolder = ""
  /\ dpHeader = <<>>
  /\ dpRows = <<>>
  /\ dpExisting = {}
  /\ dpPos = 0
  /\ dpSeen = {}
  /\ dpOut = <<>>
  /\ folder = [n \in FileNames |-> NoFile]
  /\ cache = NoCache
  /\ ldPc = "idle"
  /\ ldResult = {}
  /\ ldReread = FALSE
  /\ ldCalls = 0
  /\ chgCount = 0
  /\ allAltered = TRUE
  /\ builtAt = 0
  /\ sigReused = FALSE
  /\ flHeader \in SbiHeaders
  /\ flRows \in SbiStreams(flHeader)
  /\ flSelected \in SbiItems
  /\ flDup = NoAdvanced
  /\ flExisting = {}
  /\ flPos = 0
  /\ flSeen = {}
  /\ flOut = <<>>
  /\ flPc = "call"
  /\ plReady = FALSE
  /\ plProvGeoms = <<>>
  /\ plProvNames = <<>>
  /\ plCustGeoms = <<>>
  /\ plCustNames = <<>>
  /\ plThread = [t \in Threads |-> ThreadAt("idle", 0)]
  /\ rqFolder = [n \in FileNames |-> NoFile]
  /\ rqCache = NoCache
  /\ rqHeader = <<>>
  /\ rqRows = <<>>
  /\ rqReq = [r \in Requests |-> IdleRequest]
  /\ anHeader = <<>>
  /\ anRows = <<>>
  /\ anPos = 0
  /\ anStats = NewStats
  /\ anResult = NoResult
  /\ anPc = "idle"
  /\ cmTotal = 0
  /\ cmFiltered = <<>>
  /\ cmBaseline = <<>>
  /\ cmCap = 0
  /\ cmResult = NoComparison
  /\ cmPc = "idle"
  /\ blFiles = [f \in REFERENCE_FILES |-> FALSE]
  /\ blCache = 0
  /\ blReads = 0
  /\ blObjects = 0
  /\ blChanges = 0
  /\ blCalls = 0
  /\ blThread = [t \in Threads |-> LoaderAt("idle", 0)]
  /\ cnHeader = <<>>
  /\ cnRows = <<>>
  /\ cnSelected = <<>>
  /\ cnAdv = NoAdvanced
  /\ cnChunk = 1
  /\ cnState = [c \in 1..Len(CONSUMERS) |-> NewConsumer("idle")]

CompareInit ==
  /\ svPc = "idle"
  /\ svExc = "none"
  /\ svErr = ""
  /\ nDests = 0
  /\ destinations = <<>>
  /\ prepared = <<>>
  /\ rest_index = 0
  /\ srcOpen = FALSE
  /\ srcRead = 0
  /\ srcYielded = 0
  /\ dirsMade = {}
  /\ disk = EmptyDisk
  /\ fh = <<>>
  /\ written = <<>>
  /\ total_rows_written = 0
  /\ dpPc = "idle"
  /\ dpFolder = ""
  /\ dpHeader = <<>>
  /\ dpRows = <<>>
  /\ dpExisting = {}
  /\ dpPos = 0
  /\ dpSeen = {}
  /\ dpOut = <<>>
  /\ folder = [n \in FileNames |-> NoFile]
  /\ cache = NoCache
  /\ ldPc = "idle"
  /\ ldResult = {}
  /\ ldReread = FALSE
  /\ ldCalls = 0
  /\ chgCount = 0
  /\ allAltered = TRUE
  /\ builtAt = 0
  /\ sigReused = FALSE
  /\ flHeader = <<>>
  /\ flRows = <<>>
  /\ flSelected = <<>>
  /\ flDup = NoAdvanced
  /\ flExisting = {}
  /\ flPos = 0
  /\ flSeen = {}
  /\ flOut = <<>>
  /\ flPc = "idle"
  /\ plReady = FALSE
  /\ plProvGeoms = <<>>
  /\ plProvNames = <<>>
  /\ plCustGeoms = <<>>
  /\ plCustNames = <<>>
  /\ plThread = [t \in Threads |-> ThreadAt("idle", 0)]
  /\ rqFolder = [n \in FileNames |-> NoFile]
  /\ rqCache = NoCache
  /\ rqHeader = <<>>
  /\ rqRows = <<>>
  /\ rqReq = [r \in Requests |-> IdleRequest]
  /\ anHeader = <<>>
  /\ anRows = <<>>
  /\ anPos = 0
  /\ anStats = NewStats
  /\ anResult = NoResult
  /\ anPc = "idle"
  /\ cmTotal \in CompareTotals
  /\ cmFiltered \in CompareFiltered(cmTotal)
  /\ cmBaseline \in CompareBaselines
  /\ cmCap \in 1..MaxCap
  /\ cmResult = NoComparison
  /\ cmPc = "call"
  /\ blFiles = [f \in REFERENCE_FILES |-> FALSE]
  /\ blCache = 0
  /\ blReads = 0
  /\ blObjects = 0
  /\ blChanges = 0
  /\ blCalls = 0
  /\ blThread = [t \in Threads |-> LoaderAt("idle", 0)]
  /\ cnHeader = <<>>
  /\ cnRows = <<>>
  /\ cnSelected = <<>>
  /\ cnAdv = NoAdvanced
  /\ cnChunk = 1
  /\ cnState = [c \in 1..Len(CONSUMERS) |-> NewConsumer("idle")]

BaselineInit ==
  /\ svPc = "idle"
  /\ svExc = "none"
  /\ svErr = ""
  /\ nDests = 0
  /\ destinations = <<>>
  /\ prepared = <<>>
  /\ rest_index = 0
  /\ srcOpen = FALSE
  /\ srcRead = 0
  /\ srcYielded = 0
  /\ dirsMade = {}
  /\ disk = EmptyDisk
  /\ fh = <<>>
  /\ written = <<>>
  /\ total_rows_written = 0
  /\ dpPc = "idle"
  /\ dpFolder = ""
  /\ dpHeader = <<>>
  /\ dpRows = <<>>
  /\ dpExisting = {}
  /\ dpPos = 0
  /\ dpSeen = {}
  /\ dpOut = <<>>
  /\ folder = [n \in FileNames |-> NoFile]
  /\ cache = NoCache
  /\ ldPc = "idle"
  /\ ldResult = {}
  /\ ldReread = FALSE
  /\ ldCalls = 0
  /\ chgCount = 0
  /\ allAltered = TRUE
  /\ builtAt = 0
  /\ sigReused = FALSE
  /\ flHeader = <<>>
  /\ flRows = <<>>
  /\ flSelected = <<>>
  /\ flDup = NoAdvanced
  /\ flExisting = {}
  /\ flPos = 0
  /\ flSeen = {}
  /\ flOut = <<>>
  /\ flPc = "idle"
  /\ plReady = FALSE
  /\ plProvGeoms = <<>>
  /\ plProvNames = <<>>
  /\ plCustGeoms = <<>>
  /\ plCustNames = <<>>
  /\ plThread = [t \in Threads |-> ThreadAt("idle", 0)]
  /\ rqFolder = [n \in FileNames |-> NoFile]
  /\ rqCache = NoCache
  /\ rqHeader = <<>>
  /\ rqRows = <<>>
  /\ rqReq = [r \in Requests |-> IdleRequest]
  /\ anHeader = <<>>
  /\ anRows = <<>>
  /\ anPos = 0
  /\ anStats = NewStats
  /\ anResult = NoResult
  /\ anPc = "idle"
  /\ cmTotal = 0
  /\ cmFiltered = <<>>
  /\ cmBaseline = <<>>
  /\ cmCap = 0
  /\ cmResult = NoComparison
  /\ cmPc = "idle"
  /\ blFiles \in [REFERENCE_FILES -> BOOLEAN]
  /\ blCache = 0
  /\ blReads = 0
  /\ blObjects = 0
  /\ blChanges = 0
  /\ blCalls = 0
  /\ blThread = [t \in Threads |-> LoaderAt("start", 0)]
  /\ cnHeader = <<>>
  /\ cnRows = <<>>
  /\ cnSelected = <<>>
  /\ cnAdv = NoAdvanced
  /\ cnChunk = 1
  /\ cnState = [c \in 1..Len(CONSUMERS) |-> NewConsumer("idle")]

ConsumerInit ==
  /\ svPc = "idle"
  /\ svExc = "none"
  /\ svErr = ""
  /\ nDests = 0
  /\ destinations = <<>>
  /\ prepared = <<>>
  /\ rest_index = 0
  /\ srcOpen = FALSE
  /\ srcRead = 0
  /\ srcYielded = 0
  /\ dirsMade = {}
  /\ disk = EmptyDisk
  /\ fh = <<>>
  /\ written = <<>>
  /\ total_rows_written = 0
  /\ dpPc = "idle"
  /\ dpFolder = ""
  /\ dpHeader = <<>>
  /\ dpRows = <<>>
  /\ dpExisting = {}
  /\ dpPos = 0
  /\ dpSeen = {}
  /\ dpOut = <<>>
  /\ folder = [n \in FileNames |-> NoFile]
  /\ cache = NoCache
  /\ ldPc = "idle"
  /\ ldResult = {}
  /\ ldReread = FALSE
  /\ ldCalls = 0
  /\ chgCount = 0
  /\ allAltered = TRUE
  /\ builtAt = 0
  /\ sigReused = FALSE
  /\ flHeader = <<>>
  /\ flRows = <<>>
  /\ flSelected = <<>>
  /\ flDup = NoAdvanced
  /\ flExisting = {}
  /\ flPos = 0
  /\ flSeen = {}
  /\ flOut = <<>>
  /\ flPc = "idle"
  /\ plReady = FALSE
  /\ plProvGeoms = <<>>
  /\ plProvNames = <<>>
  /\ plCustGeoms = <<>>
  /\ plCustNames = <<>>
  /\ plThread = [t \in Threads |-> ThreadAt("idle", 0)]
  /\ rqFolder = [n \in FileNames |-> NoFile]
  /\ rqCache = NoCache
  /\ rqHeader = <<>>
  /\ rqRows = <<>>
  /\ rqReq = [r \in Requests |-> IdleRequest]
  /\ anHeader = <<>>
  /\ anRows = <<>>
  /\ anPos = 0
  /\ anStats = NewStats
  /\ anResult = NoResult
  /\ anPc = "idle"
  /\ cmTotal = 0
  /\ cmFiltered = <<>>
  /\ cmBaseline = <<>>
  /\ cmCap = 0
  /\ cmResult = NoComparison
  /\ cmPc = "idle"
  /\ blFiles = [f \in REFERENCE_FILES |-> FALSE]
  /\ blCache = 0
  /\ blReads = 0
  /\ blObjects = 0
  /\ blChanges = 0
  /\ blCalls = 0
  /\ blThread = [t \in Threads |-> LoaderAt("idle", 0)]
  /\ cnHeader \in ConsumerHeaders
  /\ cnRows \in ConsumerStreams(cnHeader)
  /\ cnSelected \in ConsumerSelections
  /\ cnAdv \in ConsumerAdvanced
  /\ cnChunk \in ConsumerChunks
  /\ cnState = StartedConsumers

SaveSpec == SaveInit /\ [][SaveNext]_vars

DupSpec == DupInit /\ [][DupNext]_vars

CacheSpec == CacheInit /\ [][CacheNext]_vars

PipeSpec == PipeInit /\ [][FilterNext]_vars

SingleSpec == SingleInit /\ [][FilterNext]_vars

PolySpec == PolyInit /\ [][PolyNext]_vars

RequestSpec == RequestInit /\ [][RequestNext]_vars

AnalyzerSpec == AnalyzerInit /\ [][AnalyzerNext]_vars

SbiSpec == SbiInit /\ [][FilterNext]_vars

CompareSpec == CompareInit /\ [][CompareNext]_vars

BaselineSpec == BaselineInit /\ [][BaselineNext]_vars

ConsumerSpec == ConsumerInit /\ [][ConsumerNext]_vars

\* ==================================================================== claims
Terminated == svPc \in {"returned", "raised"}

Entries == 1..Len(prepared)

\* The fixed entries whose quota is not exhausted.
OpenFixed == {i \in Entries : ~prepared[i].rest /\ prepared[i].remaining > 0}

RestEntries == {i \in Entries : prepared[i].rest}

RECURSIVE SumTotalRows(_)
SumTotalRows(prep) ==
  IF prep = <<>> THEN 0 ELSE Head(prep).total_rows + SumTotalRows(Tail(prep))

\* The rows entry i wrote to its chunk f, in the order written.
ChunkRows(i, f) ==
  LET hits == SelectSeq(written, LAMBDA w : w[2] = i /\ w[3] = f)
  IN [k \in 1..Len(hits) |-> hits[k][1]]

\* No other entry of the request resolves to entry i's directory.
OwnDirectory(i) == \A j \in Entries : j # i => prepared[j].directory # prepared[i].directory

CeilDiv(n, m) == (n + m - 1) \div m

\* C1: every row the pipeline yields in the routing loop is written to the first
\* entry in list order whose fixed quota has remaining > 0; when there is none it
\* is written to the REST entry; the capacity error is raised for the row exactly
\* when there is neither.
C1_RoutingOrder ==
  [][(svPc = "route" /\ srcYielded' = srcYielded + 1) =>
       /\ Len(written') = Len(written) + 1 =>
            LET d == written'[Len(written')][2]
            IN /\ OpenFixed # {} => (d \in OpenFixed /\ \A j \in OpenFixed : d <= j)
               /\ OpenFixed = {} => d \in RestEntries
       /\ svExc' = "capacity" <=> (OpenFixed = {} /\ RestEntries = {})
       /\ svExc' = "capacity" => written' = written]_vars

\* C1 witness: a REST entry placed before a fixed entry received a row after the
\* fixed entry, later in the list, had filled its quota.
C1_Witness ==
  /\ svPc = "returned"
  /\ \E i, j \in Entries :
       /\ i < j
       /\ prepared[i].rest /\ prepared[i].total_rows > 0
       /\ ~prepared[j].rest /\ prepared[j].total_rows = prepared[j].requested

\* C2: when the call returns, the rows_written of the destinations add up to the
\* returned total, which is the number of rows the pipeline yielded, and each
\* yielded row was written exactly once.
C2_RowConservation ==
  svPc = "returned" =>
    /\ SumTotalRows(prepared) = total_rows_written
    /\ total_rows_written = srcYielded
    /\ Len(written) = srcYielded
    /\ \A k \in 1..Len(written) : written[k][1] = k
    /\ \A i \in Entries :
         prepared[i].total_rows = Cardinality({k \in 1..Len(written) : written[k][2] = i})

\* C2 witness: a return after rows went to two destinations.
C2_Witness ==
  /\ svPc = "returned"
  /\ Len(prepared) = 2
  /\ prepared[1].total_rows > 0
  /\ prepared[2].total_rows > 0
  /\ srcRead > srcYielded

C4_ChunkLayout ==
  svExc # "io" =>
    \A i \in Entries :
      LET e == prepared[i]
          n == e.total_rows
          nf == Len(e.files)
      IN n > 0 =>
           /\ nf = CeilDiv(n, e.max_rows)
           /\ e.file_index = nf
           /\ \A f \in 1..nf :
                /\ e.files[f] = <<e.directory, f>>
                /\ Len(ChunkRows(i, f)) <= e.max_rows
                /\ f < nf => Len(ChunkRows(i, f)) = e.max_rows
                /\ f = nf => Len(ChunkRows(i, f)) = n - (nf - 1) * e.max_rows
                /\ OwnDirectory(i) => disk[e.files[f]] = ChunkRows(i, f)
           /\ (svPc = "route" /\ e.handle # 0) => e.current_count = Len(ChunkRows(i, nf))

\* C4 witness: the first destination, of quota 1, holds one file of 1 row; the
\* REST destination, in chunks of 2, holds the other 3 rows in files of 2 and 1.
C4_Witness ==
  /\ svPc = "returned"
  /\ Len(prepared) = 2
  /\ ~prepared[1].rest /\ prepared[1].requested = 1
  /\ prepared[2].rest /\ prepared[2].max_rows = 2
  /\ Len(prepared[1].files) = 1 /\ Len(ChunkRows(1, 1)) = 1
  /\ Len(prepared[2].files) = 2
  /\ Len(ChunkRows(2, 1)) = 2 /\ Len(ChunkRows(2, 2)) = 1

\* C5 (as claimed): once a chunk was opened, the call ends, by return or by any
\* exception, with every chunk handle it opened closed and no entry holding an
\* open handle.
C5_NoHandleLeftOpen ==
  (Terminated /\ fh # <<>>) =>
    /\ \A h \in 1..Len(fh) : ~fh[h].open
    /\ \A i \in Entries : prepared[i].handle # 0 => ~fh[prepared[i].handle].open

\* C6: the capacity error is raised for the first row beyond the quotas, with no
\* REST entry and every fixed entry at exactly its requested rows; every file an
\* entry lists is on disk, holding the entry's rows when the directory is the
\* entry's own; and from the error on no further row is read or yielded and no
\* file is changed, removed or added: the call ends raised, with the disk as the
\* error found it.
C6_CapacityKeepsFiles ==
  /\ [](svExc = "capacity" =>
          /\ svPc \in {"finally", "raised"}
          /\ RestEntries = {}
          /\ srcYielded = total_rows_written + 1
          /\ \A i \in Entries :
               /\ prepared[i].total_rows = prepared[i].requested
               /\ prepared[i].remaining = 0
               /\ \A f \in 1..Len(prepared[i].files) :
                    /\ prepared[i].files[f] \in DOMAIN disk
                    /\ OwnDirectory(i) => disk[prepared[i].files[f]] = ChunkRows(i, f))
  /\ [][svExc = "capacity" =>
          /\ svPc' = "raised"
          /\ srcRead' = srcRead
          /\ srcYielded' = srcYielded
          /\ disk' = disk
          /\ written' = written]_vars

\* C6 witness: the error was raised with rows on disk in two chunks and source
\* rows still unread.
C6_Witness ==
  /\ svPc = "raised"
  /\ svExc = "capacity"
  /\ total_rows_written = 3
  /\ Len(prepared) = 2
  /\ Len(prepared[1].files) = 2
  /\ disk[prepared[1].files[1]] # <<>>

\* The destination examined i-th is malformed in one of the ways of C7: no
\* directory, max_rows_per_file missing, not an integer or not positive, or a
\* second REST destination.
RestLike(raw) == raw.rows_requested \in {NoneVal, RVal}

Malformed(i) ==
  LET raw == destinations[i]
  IN \/ raw.directory = ""
     \/ raw.max_rows_per_file.k # "int"
     \/ raw.max_rows_per_file.v <= 0
     \/ RestLike(raw) /\ \E j \in 1..(i - 1) : RestLike(destinations[j])

C8_NonPositiveRowsRejected ==
  \A i \in 1..Len(destinations) :
    LET raw == destinations[i]
    IN (/\ raw.rows_requested.k = "int"
        /\ raw.rows_requested.v <= 0
        /\ raw.directory # ""
        /\ raw.max_rows_per_file.k = "int"
        /\ raw.max_rows_per_file.v > 0)
       => /\ i = Len(destinations)
          /\ i > Len(prepared)
          /\ svExc = "validation"
          /\ svErr = "rows must be greater than zero"

\* The identifier of the i-th row of the stream.
RowId(i) == KvkVal(dpRows[i], _find_kvk_index(dpHeader))

\* The rows the duplicate filter is to emit: those without identifier, and the
\* first occurrence of every identifier that is not external.
DupExpected ==
  SelectSeq([i \in 1..Len(dpRows) |-> i],
            LAMBDA i : \/ RowId(i) = <<>>
                       \/ /\ RowId(i) \notin dpExisting
                          /\ \A j \in 1..(i - 1) : RowId(j) # RowId(i))

\* C9: when the generator is exhausted it has yielded, in stream order, exactly
\* the rows with an empty identifier and the first occurrence of each identifier
\* outside the external set, and no row whose identifier is external.
C9_DuplicateFilterOutput ==
  dpPc = "done" =>
    /\ dpOut = DupExpected
    /\ \A k \in 1..Len(dpOut) : RowId(dpOut[k]) \notin dpExisting

\* C9 witness: external {1}, stream 1, 2, 2 gave the single first 2.
C9_Witness ==
  /\ dpPc = "done"
  /\ dpExisting = {<<"1">>}
  /\ Len(dpRows) = 3
  /\ RowId(1) = <<"1">> /\ RowId(2) = <<"2">> /\ RowId(3) = <<"2">>
  /\ dpOut = <<2>>

\* The triples of a signature.
Triples(sig) == {sig[i] : i \in 1..Len(sig)}

\* What a returned call leaves, whatever the changes before it: the result is the
\* cached set, the cached signature is the folder's, and a call that read the
\* files stored and returned the folder's identifiers.
CallMechanism ==
  ldPc = "returned" =>
    /\ cache.present
    /\ ldResult = cache.ids
    /\ Triples(cache.sig) = SignatureSet(folder)
    /\ ldReread => cache.ids = FolderIds(folder)

\* C10 (as claimed): a call that returns after changes that each altered the
\* folder's (name, size, mtime) signature returns the identifiers of the folder's
\* current contents.
C10_AlteredSignatureFreshResult ==
  /\ CallMechanism
  /\ (ldPc = "returned" /\ allAltered) => ldResult = FolderIds(folder)

\* C10 (amended): a call that returns gives the identifiers of the folder's
\* current contents unless it found the cached signature on a folder changed
\* since the cache entry was built; a call that finds the cached signature returns
\* the cached set without reading the files, any other call reads them and
\* replaces the cache entry.
C10_FreshUnlessSignatureReused ==
  /\ CallMechanism
  /\ (ldPc = "returned" /\ ~sigReused) => ldResult = FolderIds(folder)
  /\ (ldPc = "returned" /\ ~ldReread /\ ~sigReused) => builtAt = chgCount
  /\ (ldPc = "returned" /\ ldReread) => builtAt = chgCount

\* C10 witness: the second call met a changed signature, read the files again and
\* returned a set other than the empty one cached before.
C10_Witness ==
  /\ ldPc = "returned"
  /\ ldCalls = 2
  /\ chgCount = 1
  /\ ldReread
  /\ ldResult = {<<"2">>}
  /\ Cardinality(Present(folder)) = 2

\* ---------------------------------------------------------------- the chain
FilterTerminated == flPc \in {"done", "raised"}

\* The pass from a position on, as a function of its inputs: the rows emitted
\* and how the pass ends.
RECURSIVE PassFrom(_, _, _, _, _, _, _, _)
PassFrom(header, items, adv, existing, rows, pos, seen, out) ==
  IF pos = Len(rows) THEN [out |-> out, pc |-> "done"]
  ELSE LET row == rows[pos + 1]
           r == ChainRow(header, items, row, 1)
           kvk_val == KvkVal(TextRow(row), _find_kvk_index(TextRow(header)))
           dup == adv.filterDuplicates
           yields == r = "keep" /\ (dup => DupYields(kvk_val, existing, seen))
       IN IF r = "raise" THEN [out |-> out, pc |-> "raised"]
          ELSE PassFrom(header, items, adv, existing, rows, pos + 1,
                        IF r = "keep" /\ dup THEN DupSeen(kvk_val, existing, seen) ELSE seen,
                        IF yields THEN Append(out, pos + 1) ELSE out)

\* A whole pass of _apply_filters consumed to its end.
PassResult(header, items, adv, existing, rows) ==
  IF DupCallRaises(adv, header) THEN [out |-> <<>>, pc |-> "raised"]
  ELSE IF ChainBlocked(header, items) THEN [out |-> <<>>, pc |-> "done"]
  ELSE PassFrom(header, items, adv, existing, rows, 0, {}, <<>>)

\* The orderings of a selection map.
Reorderings(items) ==
  {p \in [1..Len(items) -> {items[i] : i \in 1..Len(items)}] :
     \A i, j \in 1..Len(items) : i # j => p[i] # p[j]}

\* C11: for a given header, row stream and advanced options, a finished pass
\* has emitted the same rows in the same order, and ended the same way, as the
\* pass over any other ordering of the selected filters would (with the
\* duplicate stage on, the result depends besides only on the order of the rows).
C11_FilterOrderIrrelevant ==
  FilterTerminated =>
    \A p \in Reorderings(flSelected) :
      PassResult(flHeader, p, flDup, flExisting, flRows) = [out |-> flOut, pc |-> flPc]

\* The row with the missing trailing cells filled with empty cells.
Padded(header, row) == [i \in 1..Len(header) |-> IF i <= Len(row) THEN row[i] ELSE ""]

\* C14: a row that ends before a filter's column is handled as the row with an
\* empty cell in that column: a finished pass has not raised on a row, and has
\* emitted exactly the rows the pass over the padded rows emits.
C14_ShortRowAsEmptyCell ==
  FilterTerminated =>
    PassResult(flHeader, flSelected, flDup, flExisting,
               [i \in 1..Len(flRows) |-> Padded(flHeader, flRows[i])])
      = [out |-> flOut, pc |-> flPc]

\* ------------------------------------------------------- one filter alone
\* The one item of the selection map, and every row of the source in order.
TheItem == flSelected[1]

AllRows == [i \in 1..Len(flRows) |-> i]

OneFilter(k) == FilterTerminated /\ Len(flSelected) = 1 /\ TheItem.k = k

\* What a selection token says: the flag it is about and the value it asks for.
TokenMeaning ==
  ("TRUE" :> [field |-> "contactpersoon", value |-> TRUE]) @@
  ("true" :> [field |-> "contactpersoon", value |-> TRUE]) @@
  ("FALSE" :> [field |-> "contactpersoon", value |-> FALSE]) @@
  ("fax=TRUE" :> [field |-> "fax", value |-> TRUE]) @@
  ("fax=FALSE" :> [field |-> "fax", value |-> FALSE]) @@
  ("phone=TRUE" :> [field |-> "phone", value |-> TRUE]) @@
  ("phone=FALSE" :> [field |-> "phone", value |-> FALSE]) @@
  ("post=TRUE" :> [field |-> "post", value |-> TRUE]) @@
  ("post=FALSE" :> [field |-> "post", value |-> FALSE]) @@
  ("hv=TRUE" :> [field |-> "hv", value |-> TRUE]) @@
  ("hv=FALSE" :> [field |-> "hv", value |-> FALSE]) @@
  ("nm=TRUE" :> [field |-> "nm", value |-> TRUE]) @@
  ("nm=FALSE" :> [field |-> "nm", value |-> FALSE]) @@
  ("tn=TRUE" :> [field |-> "tn", value |-> TRUE]) @@
  ("tn=FALSE" :> [field |-> "tn", value |-> FALSE])

IsTokenOf(t, field) == t \in DOMAIN TokenMeaning /\ TokenMeaning[t].field = field

\* The values selected for a flag.
Selected(selected, field) ==
  {TokenMeaning[selected[i]].value :
     i \in {j \in 1..Len(selected) : IsTokenOf(selected[j], field)}}

\* The flags of each filter and the aliases of each flag's column.
FlagsOf(k) ==
  IF k = "contactpersoon" THEN {"contactpersoon"}
  ELSE IF k = "traditional_outreach" THEN {"fax", "phone", "post"}
  ELSE IF k = "vestiging" THEN {"hv", "nm"}
  ELSE IF k = "overige" THEN {"tn"}
  ELSE {}

FlagColumn(field) ==
  IF field = "contactpersoon" THEN ContactCandidates
  ELSE IF field = "fax" THEN FAX_COL_CANDS
  ELSE IF field = "phone" THEN PHONE_COL_CANDS
  ELSE IF field = "post" THEN POSTAL_COL_CANDS
  ELSE IF field = "hv" THEN VestigingColumns.hv
  ELSE IF field = "nm" THEN VestigingColumns.nm
  ELSE TN_COL_CANDS

\* A constraint on the flag is active and the header has no column for it.
ActiveOnMissing(field) ==
  /\ Cardinality(Selected(TheItem.selected, field)) = 1
  /\ _find_col(flHeader, FlagColumn(field)) = 0

\* C15 as stated: whenever a constraint on a flag of the filter is active and
\* the flag's column is absent from the header, the finished pass has emitted
\* no row.
C15_MissingFlagColumnEmitsNothing ==
  \A k \in SingleKeys : OneFilter(k) =>
    \A field \in FlagsOf(k) : ActiveOnMissing(field) => flOut = <<>>

\* C15 amended: the same for every flag, except that contactpersoon with only
\* FALSE selected and its column absent emits every row of the source.
C15_MissingFlagColumnPolicy ==
  \A k \in SingleKeys : OneFilter(k) =>
    \A field \in FlagsOf(k) : ActiveOnMissing(field) =>
      IF field = "contactpersoon" /\ Selected(TheItem.selected, field) = {FALSE}
        THEN flPc = "done" /\ flOut = AllRows
        ELSE flPc = "done" /\ flOut = <<>>

\* Only FALSE is selected for contactpersoon, the column is absent, and the
\* pass over two rows is finished.
C15_Witness ==
  /\ OneFilter("contactpersoon")
  /\ TheItem.selected = <<"FALSE">>
  /\ ActiveOnMissing("contactpersoon")
  /\ Len(flRows) = 2

\* The selection without the tokens of a flag.
WithoutFlag(selected, field) == SelectSeq(selected, LAMBDA t : ~IsTokenOf(t, field))

\* C16: when both values of a flag are selected, the finished pass has emitted
\* the same rows, and ended the same way, as the pass over the selection
\* without the two tokens of that flag would.
C16_BothValuesAsNeither ==
  \A k \in SingleKeys : OneFilter(k) =>
    \A field \in FlagsOf(k) :
      Selected(TheItem.selected, field) = {TRUE, FALSE} =>
        PassResult(flHeader, <<[k |-> k, selected |-> WithoutFlag(TheItem.selected, field)]>>,
                   flDup, flExisting, flRows)
          = [out |-> flOut, pc |-> flPc]

\* Both values of fax are selected besides phone=TRUE, the source has one row
\* with a fax number and one without, both with a phone number, and both rows
\* are emitted.
C16_Witness ==
  /\ OneFilter("traditional_outreach")
  /\ TheItem.selected = <<"fax=TRUE", "fax=FALSE", "phone=TRUE">>
  /\ flHeader = <<"Fax", "phone", "postbus">>
  /\ flRows = <<<<"x", "x">>, <<"()", "x">>>>
  /\ flOut = <<1, 2>>

\* The cell of the first column among the aliases, "" when the header has none
\* or the row ends before it.
CellOf(row, candidates) ==
  IF _find_col(flHeader, candidates) = 0 THEN ""
  ELSE CellOr(row, _find_col(flHeader, candidates), "")

\* The row is within the user's range: both counts parse, the maximum is not
\* the sentinel, minimum <= maximum, and [minimum, maximum] meets the range.
InUserRange(row, u_min, u_max) ==
  LET r_min == _to_int_or_none(CellOf(row, CANDS_MIN))
      r_max == _to_int_or_none(CellOf(row, CANDS_MAX))
  IN /\ r_min.ok /\ r_max.ok
     /\ r_max.v # 999999999
     /\ r_min.v <= r_max.v
     /\ u_max.ok => r_min.v <= u_max.v
     /\ u_min.ok => u_min.v <= r_max.v

\* C17: the finished pass of the employee-count filter has emitted every row
\* when no bound is set, and otherwise exactly the rows within the user's range,
\* in order.
C17_EmployeeRange ==
  OneFilter("workingnumber") =>
    LET u_min == UserBound(TheItem.selected, 1)
        u_max == UserBound(TheItem.selected, 2)
    IN /\ flPc = "done"
       /\ flOut = IF ~u_min.ok /\ ~u_max.ok THEN AllRows
                  ELSE SelectSeq(AllRows, LAMBDA i : InUserRange(flRows[i], u_min, u_max))

\* Scenario B: the user's minimum is 10; the row with minimum 5 and the
\* sentinel maximum is dropped, the row from 20 to 30 is kept.
C17_Witness ==
  /\ OneFilter("workingnumber")
  /\ TheItem.selected = <<"10", "">>
  /\ flHeader = <<"workingminimum", "workingmaximum">>
  /\ flRows = <<<<"5", "999999999">>, <<"20", "30">>>>
  /\ flOut = <<2>>

\* The date a cell holds under the three formats (ISO, compact, day month
\* year), as its rank; 0 when it parses under none.
ThreeFormatDate(cell) ==
  IF cell \in {"2019-03-11", "20190311", "11 maart 2019"} THEN 1
  ELSE IF cell \in {"2020-01-01", "20200101", "1 januari 2020"} THEN 2
  ELSE IF cell \in {"2021-01-01", "20210101", "1 januari 2021"} THEN 3
  ELSE 0

\* C18: with no flag selected, the finished pass of the founding-date filter
\* has emitted every row when no date bound is active, and otherwise exactly
\* the rows whose cell parses under one of the three formats to a date within
\* [date_min, date_max].
C18_ThreeDateFormats ==
  OneFilter("overige") /\ Selected(TheItem.selected, "tn") = {} =>
    LET cons == OverigeTokens(TheItem.selected)
        Within(i) ==
          LET d == ThreeFormatDate(CellOf(flRows[i], DATE_COL_CANDS))
          IN /\ d # 0
             /\ cons.date_min # 0 => cons.date_min <= d
             /\ cons.date_max # 0 => d <= cons.date_max
    IN /\ flPc = "done"
       /\ flOut = IF cons.date_min = 0 /\ cons.date_max = 0 THEN AllRows
                  ELSE SelectSeq(AllRows, Within)

\* The category cell of the row is empty, absent or outside the enumeration.
UnknownCategory(row) ==
  LowerS(StripS(CellOf(row, VestigingColumns.gd))) \notin {"woonfunctie"}

\* C19: with a building-usage selection active and no flag selected, the
\* finished pass of the vestiging filter has not failed, and has emitted a row
\* whose category is empty or outside the enumeration iff UNKNOWN is selected.
C19_UnmatchedCategoryIsUnknown ==
  /\ OneFilter("vestiging")
  /\ VestigingTokens(TheItem.selected).gd # {}
  /\ Selected(TheItem.selected, "hv") = {} /\ Selected(TheItem.selected, "nm") = {}
  /\ _find_col(flHeader, VestigingColumns.gd) # 0
  => /\ flPc = "done"
     /\ \A i \in 1..Len(flRows) : UnknownCategory(flRows[i]) =>
          ((\E j \in 1..Len(flOut) : flOut[j] = i)
             <=> "UNKNOWN" \in VestigingTokens(TheItem.selected).gd)

\* ------------------------------------------------------ the polygon cache
\* The polygons of one kind, in load order.
PolygonsOf(kind) == SelectSeq(LoadOrder, LAMBDA f : f.kind = kind)

\* The lists of a kind hold each polygon of the files once, with its name at
\* the same index.
SnapshotOf(geoms, names, kind) ==
  /\ Len(names) = Len(geoms)
  /\ \A k \in 1..Len(geoms) : names[k] = NameOf(geoms[k])
  /\ \A i \in 1..Len(PolygonsOf(kind)) :
       Cardinality({k \in 1..Len(geoms) : geoms[k] = PolygonsOf(kind)[i]}) = 1

\* C12: whenever _CACHE_READY is true, the name lists and the geometry lists
\* have equal length and are index-aligned, and each polygon of the files
\* appears exactly once.
C12_ReadySnapshotConsistent ==
  plReady =>
    /\ SnapshotOf(plProvGeoms, plProvNames, "prov")
    /\ SnapshotOf(plCustGeoms, plCustNames, "cust")

\* ------------------------------------------------------------ the requests
\* The rows a generator of _apply_duplicate_filter yields from the first pos
\* rows when it runs alone.
RECURSIVE AloneOut(_, _, _, _)
AloneOut(pos, existing, seen, out) ==
  IF pos = 0 THEN out
  ELSE LET before == AloneOut(pos - 1, existing, seen, out)
           RECURSIVE SeenAfter(_)
           SeenAfter(n) ==
             IF n = 0 THEN seen
             ELSE DupSeen(KvkVal(rqRows[n], _find_kvk_index(rqHeader)), existing,
                          SeenAfter(n - 1))
       IN IF DupYields(KvkVal(rqRows[pos], _find_kvk_index(rqHeader)), existing,
                       SeenAfter(pos - 1))
            THEN Append(before, pos) ELSE before

\* The call of a request run alone raises: no identifier column, or a file of
\* the folder cannot be read.
AloneRaises ==
  \/ _find_kvk_index(rqHeader) = 0
  \/ \E n \in Present(rqFolder) : rqFolder[n].content.kind = "bad"

\* C13: every request, however the two interleave, filters against the
\* identifiers of the folder and has yielded, of the rows it has read, exactly
\* the rows it yields when run alone; it raises iff it raises alone.
C13_RequestsIndependent ==
  \A r \in Requests :
    /\ rqReq[r].pc = "raised" => AloneRaises
    /\ rqReq[r].pc \in {"iter", "done"} =>
         /\ ~AloneRaises
         /\ rqReq[r].existing = FolderIds(rqFolder)
         /\ rqReq[r].out = AloneOut(rqReq[r].pos, FolderIds(rqFolder), {}, <<>>)

\* Request 1 has finished over two rows of one identifier, yielding the first
\* only, while request 2 has read one row.
C13_Witness ==
  /\ Len(rqRows) = 2
  /\ rqReq[1].pc = "done" /\ rqReq[1].out = <<1>> /\ rqReq[1].seen # {}
  /\ rqReq[2].pc = "iter" /\ rqReq[2].pos = 1 /\ rqReq[2].out = <<1>>

\* ------------------------------------------------------------ the analyzer
\* No column of the header has one of the aliases.
Unresolved(candidates) ==
  \A i \in 1..Len(anHeader), c \in 1..Len(candidates) : NormName(anHeader[i]) # candidates[c]

\* The counters a logical column feeds are at zero or empty.
FedCountersZero(key) ==
  IF key = "rechtsvorm" THEN anStats.rechtsvorm_counts = EmptyBag
  ELSE IF key = "contactpersoon" THEN anStats.contact_count = 0
  ELSE IF key = "economischactief" THEN anStats.econ_true = 0
  ELSE IF key \in MEDIA_FIELDS THEN anStats.media_counts[key] = 0
  ELSE IF key = "phone" THEN anStats.phone_count = 0
  ELSE IF key = "fax" THEN anStats.fax_count = 0
  ELSE IF key = "gebruiksdoel" THEN anStats.gebruiks_counts = EmptyBag
  ELSE IF key = "oppervlakte" THEN anStats.surface_sum = 0 /\ anStats.surface_n = 0
  ELSE IF key = "working_min" THEN anStats.wmin_sum = 0 /\ anStats.wmin_n = 0
  ELSE IF key = "working_max" THEN anStats.wmax_sum = 0 /\ anStats.wmax_n = 0
  ELSE IF key = "oprichtingsdatum" THEN anStats.date_sum = 0 /\ anStats.date_n = 0
  ELSE IF key = "kvk" THEN anStats.kvk_counts = EmptyBag
  ELSE IF key = "allsbi" THEN anStats.sbi_counts = EmptyBag
  ELSE TRUE

\* The coordinate columns feed the province counter.
ProvinceCounterZero ==
  Unresolved(LON_CANDS) \/ Unresolved(LAT_CANDS) => anStats.province_counts = EmptyBag

\* C20 as stated: after any number of rows, every row read has been consumed
\* and the counters fed by an unresolved logical column, the legal form among
\* them, are at zero or empty.
C20_UnresolvedColumnsLeaveZero ==
  anPc \in {"run", "done"} =>
    /\ anStats.total_rows = anPos
    /\ ProvinceCounterZero
    /\ \A key \in DOMAIN COLUMN_CANDIDATES :
         Unresolved(COLUMN_CANDIDATES[key]) => FedCountersZero(key)

\* C20 amended: the same, except that with the legal-form column unresolved
\* every consumed row is counted under "UNKNOWN" in the legal-form counter.
C20_UnresolvedColumnsPolicy ==
  anPc \in {"run", "done"} =>
    /\ anStats.total_rows = anPos
    /\ ProvinceCounterZero
    /\ \A key \in DOMAIN COLUMN_CANDIDATES :
         Unresolved(COLUMN_CANDIDATES[key]) =>
           IF key = "rechtsvorm"
             THEN anStats.rechtsvorm_counts
                    = (IF anPos = 0 THEN EmptyBag ELSE ("UNKNOWN" :> anPos))
             ELSE FedCountersZero(key)

\* Two rows of a source with an identifier column and no legal-form column
\* have been consumed and counted.
C20_Witness ==
  /\ anHeader = <<"kvk">>
  /\ anPos = 2
  /\ Unresolved(COLUMN_CANDIDATES["rechtsvorm"])
  /\ anStats.kvk_counts # EmptyBag

\* ------------------------------------------------- chunk handles of an entry
\* The write handles that are open.
OpenHandles == {h \in 1..Len(fh) : fh[h].open}

\* The open handles no entry holds.
Orphans == {h \in OpenHandles : \A i \in Entries : prepared[i].handle # h}

\* The entries whose file_index a step has incremented.
Advanced == {i \in Entries : prepared'[i].file_index # prepared[i].file_index}

\* C24: at every point of save_filtered_csv_multi each destination has at most
\* one chunk file open.  No handle is held by two entries; an open handle that
\* no entry holds is the chunk whose header write failed, opened for an entry
\* whose previous chunk is closed; and a step that opens a chunk file opens one
\* file, the next of one entry, with the handle the entry held before closed.
C24_OneOpenChunkPerDestination ==
  /\ [](/\ \A i, j \in Entries :
             (i # j /\ prepared[i].handle # 0) => prepared[i].handle # prepared[j].handle
        /\ \A h \in Orphans :
             /\ svExc = "io"
             /\ Orphans = {h}
             /\ \E d \in Entries :
                  /\ fh[h].path = <<prepared[d].directory, prepared[d].file_index>>
                  /\ prepared[d].handle \notin OpenHandles)
  /\ [][Len(fh') > Len(fh) =>
          /\ Len(fh') = Len(fh) + 1
          /\ fh'[Len(fh')].open
          /\ \A h \in 1..Len(fh) : fh'[h].open => fh[h].open
          /\ \E d \in Entries :
               /\ Advanced = {d}
               /\ prepared'[d].file_index = prepared[d].file_index + 1
               /\ fh'[Len(fh')].path = <<prepared[d].directory, prepared'[d].file_index>>
               /\ prepared[d].handle # 0 => ~fh'[prepared[d].handle].open]_vars

\* An entry writes into its second chunk, the handle of its first chunk closed.
C24_Witness ==
  /\ svPc = "route"
  /\ \E i \in Entries :
       /\ prepared[i].file_index = 2
       /\ prepared[i].handle \in OpenHandles
       /\ prepared[i].current_count = 1
       /\ \E h \in 1..Len(fh) :
            /\ fh[h].path = <<prepared[i].directory, 1>>
            /\ ~fh[h].open
       /\ Cardinality(OpenHandles) = 2

\* ------------------------------------------------------------ shared paths
\* The rows of a chunk file on disk, as a set.
RowsOnDisk(path) ==
  IF path \in DOMAIN disk THEN {disk[path][k] : k \in 1..Len(disk[path])} ELSE {}

\* C26: no two destinations of a request write to the same path, and when the
\* call returns every row counted in an entry's rows_written is in the chunk
\* file of that entry it was written to.
C26_NoSharedPath ==
  /\ \A i, j \in Entries :
       i # j =>
         {prepared[i].files[f] : f \in 1..Len(prepared[i].files)}
           \cap {prepared[j].files[f] : f \in 1..Len(prepared[j].files)} = {}
  /\ svPc = "returned" =>
       \A k \in 1..Len(written) :
         written[k][1] \in RowsOnDisk(<<prepared[written[k][2]].directory, written[k][3]>>)

\* ------------------------------------------------------------------ quotas
FixedEntries == {i \in Entries : ~prepared[i].rest}

\* C27: in every state each fixed entry has remaining + rows_written =
\* rows_requested and 0 <= rows_written <= rows_requested, and a step in which
\* the REST entry receives a row starts with every fixed entry at remaining = 0,
\* wherever the REST entry stands in the list.
C27_QuotaAccounting ==
  /\ [](\A i \in FixedEntries :
          /\ prepared[i].remaining + prepared[i].total_rows = prepared[i].requested
          /\ 0 <= prepared[i].total_rows
          /\ prepared[i].total_rows <= prepared[i].requested)
  /\ [][\A i \in RestEntries :
          prepared'[i].total_rows > prepared[i].total_rows =>
            \A j \in FixedEntries : prepared[j].remaining = 0]_vars

\* The REST entry, first in the list, has received a row in the routing loop
\* after the fixed entry behind it was filled.
C27_Witness ==
  /\ svPc = "route"
  /\ Len(prepared) = 2
  /\ prepared[1].rest /\ prepared[1].total_rows = 1
  /\ ~prepared[2].rest /\ prepared[2].requested = 2
  /\ prepared[2].total_rows = 2 /\ prepared[2].remaining = 0

\* ------------------------------------------------------- the source handle
\* C28: when save_filtered_csv_multi ends, by return or by an exception, the
\* read handle opened by _stream_rows is closed: after the stream is exhausted,
\* after a capacity or write error, after a validation error, and when no
\* filter has consumed the stream.  (A step of the interpreter's finalization
\* after the end is not the call's; the property is about the state the call
\* ends in.)
C28_SourceClosedOnExit ==
  [][(svPc \notin {"returned", "raised"} /\ svPc' \in {"returned", "raised"}) => ~srcOpen']_vars

\* ------------------------------------------------------------ the sbi filter
\* The codes a bucket of the selection asks for: the manual codes that are not
\* blank, with the codes of the uploaded list when one is referenced and exists.
BucketCodes(b) ==
  LET data == TheItem.selected[b]
  IN ({_normalize_code(data.codes[i]) : i \in 1..Len(data.codes)} \ {""})
       \cup (IF data.file = "list63" THEN {"63"} ELSE {})

\* The column of a bucket in the header, 0 when the header has none.
BucketColumn(b) ==
  LET hits == {i \in 1..Len(flHeader) :
                 \E c \in 1..Len(SbiColCands[b]) : NormName(flHeader[i]) = SbiColCands[b][c]}
  IN IF hits = {} THEN 0 ELSE Min(hits)

\* The codes of the cell of row p in the column of bucket b.
RowCodes(p, b) ==
  IF BucketColumn(b) <= Len(flRows[p]) THEN _parse_row_codes(flRows[p][BucketColumn(b)]) ELSE {}

\* C30: the sbi filter keeps a row iff, for every bucket with a non-empty code
\* set whose column the header has, the codes of the row's cell meet the set;
\* a bucket whose column is missing constrains nothing, and with the three sets
\* empty every row passes.
C30_SbiBuckets ==
  (OneFilter("sbi") /\ flPc = "done") =>
    flOut = SelectSeq(AllRows,
              LAMBDA p : \A b \in {"main", "sub", "all"} :
                           (BucketCodes(b) # {} /\ BucketColumn(b) # 0) =>
                             RowCodes(p, b) \cap BucketCodes(b) # {})

\* A pass over two rows with codes asked for in the sub bucket, whose column
\* the header has, and in the all bucket, whose column it lacks: one row kept,
\* one dropped.
C30_Witness ==
  /\ OneFilter("sbi") /\ flPc = "done"
  /\ flHeader = <<"subsbi">>
  /\ BucketCodes("sub") = {"62", "63"}
  /\ BucketCodes("all") # {} /\ BucketColumn("all") = 0
  /\ flOut = <<2>>
  /\ Len(flRows) = 2

\* ------------------------------------------------------------- percentages
\* Every {"abs", "pct"} pair of the result that is taken over the total rows:
\* the metrics and the entries of the three breakdowns.
PctPairs ==
  {anResult.metrics[k] : k \in DOMAIN anResult.metrics}
    \cup {anResult.rechtsvorm[k] : k \in DOMAIN anResult.rechtsvorm}
    \cup {anResult.province[k] : k \in DOMAIN anResult.province}
    \cup {anResult.sbi[k] : k \in DOMAIN anResult.sbi}

\* On zero rows finalize returns pct 0 everywhere and a duplicate-identifier
\* rate of 0.
ZeroRowsZeroPct ==
  anResult.total_rows = 0 =>
    /\ \A m \in PctPairs : m.pct = 0
    /\ anResult.multi_kvk.pct = 0

\* C25 as stated: finalize returns; on zero rows every pct and the
\* duplicate-identifier rate are 0; on total > 0 every pct is exactly
\* 100 * abs / total.
C25_ExactPercentages ==
  anPc = "done" =>
    /\ anResult.total_rows = Len(anRows)
    /\ ZeroRowsZeroPct
    /\ anResult.total_rows > 0 =>
         \A m \in PctPairs : m.pct * anResult.total_rows = 100 * Millionths * m.abs

\* C25 amended: on total > 0 every pct is 100 * abs / total rounded to six
\* decimals, the millionth nearest to the quotient.
C25_RoundedPercentages ==
  anPc = "done" =>
    /\ anResult.total_rows = Len(anRows)
    /\ ZeroRowsZeroPct
    /\ anResult.total_rows > 0 =>
         \A m \in PctPairs :
           LET off == m.pct * anResult.total_rows - 100 * Millionths * m.abs
           IN 2 * off <= anResult.total_rows /\ -2 * off <= anResult.total_rows

\* finalize has run on three rows of which two have an e-mail address.
C25_Witness ==
  /\ anPc = "done"
  /\ anResult.total_rows = 3
  /\ anResult.metrics["email"].abs = 2
  /\ anResult.metrics["email"].pct = 66666667
  /\ anResult.rechtsvorm["UNKNOWN"].abs = 3

\* ------------------------------------------------------- ranked comparison
\* The categories the comparison must show: the live ones and the baseline ones
\* that are absent from the live data with a share above zero.
LiveValues == MapKeys(cmFiltered)

AbsentValues == {v \in MapKeys(cmBaseline) \ LiveValues : MapGet(cmBaseline, v) > 0}

LiveItem(v) == cmFiltered[CHOOSE i \in 1..Len(cmFiltered) : cmFiltered[i].value = v]

Deviation(v) ==
  Abs((IF v \in LiveValues THEN LiveItem(v).pct ELSE 0) - MapGet(cmBaseline, v))

\* C21: the comparison of a categorical breakdown holds one row per live
\* category and one row, of live count 0 and direction lower, per baseline
\* category that is absent from the live data with a share above zero, and none
\* for an absent category with a share of zero or less; the rows are in
\* descending order of absolute deviation and cut to the cap, the rows cut are
\* none of larger deviation than a row kept, and omitted is
\* max(0, rows before the cut - cap).
C21_RankedComparison ==
  cmPc = "done" =>
    LET rows == cmResult.rows
        all == LiveValues \cup AbsentValues
        shown == {rows[i].value : i \in 1..Len(rows)}
    IN /\ Len(rows) = Min({Cardinality(all), cmCap})
       /\ cmResult.omitted = Max({0, Cardinality(all) - cmCap})
       /\ shown \subseteq all
       /\ \A i, j \in 1..Len(rows) : rows[i].value = rows[j].value => i = j
       /\ \A i \in 1..Len(rows) :
            /\ rows[i].abs_diff_pct = Deviation(rows[i].value)
            /\ rows[i].baseline_pct = MapGet(cmBaseline, rows[i].value)
            /\ IF rows[i].value \in LiveValues
                 THEN /\ rows[i].filtered_abs = LiveItem(rows[i].value).abs
                      /\ rows[i].filtered_pct = LiveItem(rows[i].value).pct
                 ELSE /\ rows[i].filtered_abs = 0
                      /\ rows[i].filtered_pct = 0
                      /\ rows[i].direction = "lower"
       /\ \A i, j \in 1..Len(rows) : i < j => rows[i].abs_diff_pct >= rows[j].abs_diff_pct
       /\ \A v \in all \ shown : \A i \in 1..Len(rows) : Deviation(v) <= rows[i].abs_diff_pct

\* A comparison that was cut, shows a live and an absent category, and left out
\* an absent category of share zero or less.
C21_Witness ==
  /\ cmPc = "done"
  /\ cmResult.omitted > 0
  /\ \E i, j \in 1..Len(cmResult.rows) :
       /\ cmResult.rows[i].value \in LiveValues
       /\ cmResult.rows[j].value \in AbsentValues
  /\ \E v \in MapKeys(cmBaseline) \ LiveValues : MapGet(cmBaseline, v) <= 0

\* ------------------------------------------------------- the baseline cache
\* C22: the reference files are read at most once; once _BASELINE_CACHE holds
\* an object it holds that object for good, and a call that finds it returns it
\* without reading; a call that finds a reference file missing raises, returns
\* nothing and leaves the cache as it was.
C22_BaselineReadOnce ==
  /\ [](blReads <= 1)
  /\ [][blCache # 0 => blCache' = blCache]_vars
  /\ [][\A t \in Threads :
          (blCache # 0 /\ blThread[t].pc = "start" /\ blThread'[t].pc # "start")
            => /\ blThread'[t] = LoaderAt("returned", blCache)
               /\ blReads' = blReads]_vars
  /\ [][\A t \in Threads :
          (blThread[t].pc # "raised" /\ blThread'[t].pc = "raised")
            => /\ blThread'[t].result = 0
               /\ blCache' = blCache]_vars

\* ------------------------------------------------- errors of a download
\* C23: when the duplicate stage of a download cannot be set up (no folder
\* given, folder missing or unreadable, no identifier column in the source),
\* the request ends with an error status and nothing (mark, header or row) was
\* emitted.
C23_ErrorBeforeOutput ==
  (cnState[2].pc = "raised" /\ ApplyRaises(cnAdv, cnHeader))
    => (cnState[2].chunks = <<>> /\ cnState[2].status # 200)

\* ------------------------------------------------ agreement of the consumers
\* The lines of the chunk files of the save, in the order of the files.
RECURSIVE LinesOf(_, _)
LinesOf(dsk, files) ==
  IF files = <<>> THEN <<>> ELSE dsk[Head(files)] \o LinesOf(dsk, Tail(files))

SavedLines == LinesOf(cnState[3].disk, cnState[3].entry.files)

\* The lines of the download after the mark and the header.
DownloadedLines == SubSeq(cnState[2].chunks, 3, Len(cnState[2].chunks))

AllConsumersDone == \A c \in 1..Len(CONSUMERS) : cnState[c].pc = "done"

\* C29: on the same source, selection and advanced options the four consumers
\* agree: the count of the preview, the number of data lines of the download,
\* the total of the save to one REST destination and total_rows of the analysis
\* are equal, and the saved and the downloaded rows are the same rows in the
\* same order.
C29_ConsumersAgree ==
  AllConsumersDone =>
    /\ cnState[1].result = Len(DownloadedLines)
    /\ cnState[3].result = cnState[1].result
    /\ cnState[4].result = cnState[1].result
    /\ SavedLines = DownloadedLines
    /\ cnState[2].chunks[1] = BOM
    /\ cnState[2].chunks[2] = writer_line(cnHeader)

\* Four completed consumers of a source of which two rows survive and one is
\* dropped by the duplicate stage, the save spread over two chunk files.
C29_Witness ==
  /\ AllConsumersDone
  /\ cnAdv.filterDuplicates
  /\ cnState[1].result = 2
  /\ Len(cnRows) > 2
  /\ Len(cnState[3].entry.files) = 2

====
